---- MODULE Spec2Model ----
(***************************************************************************)
(* Model of the upsert/merge writer and the batch dispatcher of            *)
(* src/src/process/writer.py (class PersistenceWriter).                    *)
(*                                                                         *)
(* SpecMerge exercises the pure function _merge_records on bounded sets of *)
(* record pairs.  Spec is the state machine of write(): the dispatcher     *)
(* thread, the pool workers running _process_batch, and the table.         *)
(* SpecConvert exercises _convert_types_for_dynamodb, SpecConstruct the    *)
(* constructor with _ensure_table_exists, SpecTransform the calls of       *)
(* ArxivMetadataTransformer.transform (src/src/process/transformer.py) and *)
(* the pipeline's count of their result, SpecInstitution the institution   *)
(* extraction of _clean_record, and SpecProcessor ArxivProcessor.process   *)
(* (src/src/process/processor.py) on one input file.                       *)
(***************************************************************************)
EXTENDS Integers, Sequences, FiniteSets, TLC

(***************************************************************************)
(* Bounds                                                                  *)
(***************************************************************************)
MaxRecords == 2       \* longest input list of write with mixed records
WindowBatches == 6    \* number of one-record batches of the window inputs
MaxFaults == 1        \* injected failures per run (store errors, raising batches)
MaxVersions == 2      \* longest versions list drawn for a merge input
MaxCats == 2          \* longest categories list drawn for a merge input
NumCategories == 2    \* size of the category universe
NumLabels == 2        \* number of non-empty version labels
MaxObjs == 2          \* longest list of dicts drawn for a conversion input
MaxRaw == 3           \* longest list of raw records handed to transform
MaxRuns == 2          \* constructions of a writer in a row
MaxWrites == 2        \* calls of write on one writer
MaxTransforms == 2    \* calls of transform on one transformer
MaxTokens == 4        \* longest submitter string drawn, in tokens
MaxLines == 3         \* most lines of the input file of the processor

(***************************************************************************)
(* State                                                                   *)
(***************************************************************************)
VARIABLES
    \* _merge_records exercised on its own (SpecMerge)
    mpc,            \* "idle" | "call" | "merged"
    mExisting,       \* argument existing
    mNew,            \* argument new
    mKeys,           \* iteration order of new.items() used by the call
    mMerged,         \* the returned record
    \* write() and the pool workers (Spec)
    config,           \* the configured batch_size, max_workers, parallel_enabled
    transformed_data, \* the argument of write
    batches,          \* the local list of batches cut by write
    table,            \* the table: paper_id -> stored item
    stats,            \* self.stats: new/updated/failed_records, status
    pc,               \* position of the dispatcher thread in write
    batch_queue,      \* indices of the batches not yet submitted
    active_futures,   \* indices of the submitted, not yet collected batches
    done,             \* futures returned by wait() still to be iterated
    seq_i,            \* loop index of the sequential path
    futures,          \* per batch: the _process_batch call and its future
    result,           \* the dict returned by write
    faults,           \* store errors / raising batches still to be injected
    submissions,      \* history: how often each batch was handed to _process_batch
    lastWrite,        \* history: per paper_id, the put that stored the current item
    write_calls,      \* history: calls of write made on this writer, the current one included
    injected,         \* history: store calls and batches that were made to fail so far
    \* _convert_types_for_dynamodb exercised on its own (SpecConvert)
    cpc,              \* "idle" | "call" | "converted"
    cRecord,          \* argument record
    cItem,            \* the returned item
    \* ArxivMetadataTransformer.transform (SpecTransform)
    tpc,                  \* "idle" | "start" | "loop" | "returned"
    raw_data,             \* the argument of transform
    records_by_id,        \* id -> the arXiv record, the arXivRaw record, update_date
    ids,                  \* the keys of records_by_id in insertion order
    t_i,                  \* position of the loop over ids
    transformed_records,  \* the list being returned
    tstats,               \* self.stats of the transformer
    cleaned,              \* history: id -> what _clean_record returned for it
    transform_calls,      \* history: calls of transform on this instance, the current one included
    pipeline_stats,       \* self.stats of the pipeline: total/successful/failed_records
    \* PersistenceWriter.__init__ and _ensure_table_exists (SpecConstruct)
    bpc,            \* "idle" | "new" | "describe" | "create" | "wait" | "constructed" | "failed"
    boot_config,    \* the config dict handed to the constructor
    attrs,          \* self.batch_size, self.max_workers, self.parallel_enabled
    remote_table,   \* the table in the store: "absent" | "creating" | "active"
    calls,          \* history: the store calls of this construction, write calls after it
    previous,       \* history: outcome of the constructions before this one
    bfaults,        \* errors still to be injected
    \* the institution extraction of _clean_record exercised on its own (SpecInstitution)
    ipc,            \* "idle" | "call" | "done"
    iRecord,        \* argument arxiv_raw_record: at most the key submitter
    institution,    \* the outcome: item["institution"], or the exception that escaped
    \* ArxivProcessor.process on one input file (SpecProcessor)
    xpc,            \* "idle" | "open" | "lines" | "flush" | "returned"
    local_mode,     \* self.local_mode
    chunk_size,     \* self.chunk_size
    file_lines,     \* the lines of the input file
    line_i,         \* position of the loop over raw_lines
    buffers,        \* self.buffers: partition key -> buffered records
    counters,       \* self.counters: partition key -> files written
    processor_stats,  \* self.stats: total/successful/failed_records
    processed_count,  \* the local counter of _process_file
    written         \* the parquet files written: partition key, part number, records

mergeVars == <<mpc, mExisting, mNew, mKeys, mMerged>>
writeVars == <<config, transformed_data, batches, table, stats, pc, batch_queue, active_futures,
               done, seq_i, futures, result, faults, submissions, lastWrite, write_calls,
               injected>>
convertVars == <<cpc, cRecord, cItem>>
transformVars == <<tpc, raw_data, records_by_id, ids, t_i, transformed_records, tstats,
                   cleaned, transform_calls, pipeline_stats>>
constructVars == <<bpc, boot_config, attrs, remote_table, calls, previous, bfaults>>
institutionVars == <<ipc, iRecord, institution>>
processorVars == <<xpc, local_mode, chunk_size, file_lines, line_i, buffers, counters,
                   processor_stats, processed_count, written>>
extraVars == <<institutionVars, processorVars>>
restVars == <<convertVars, transformVars, constructVars, extraVars>>
vars == <<mergeVars, writeVars, restVars>>

(***************************************************************************)
(* Python values.  Every value carries its type tag; the payload field has *)
(* a different name per type.                                              *)
(***************************************************************************)
None == [t |-> "none"]
Str(s) == [t |-> "str", s |-> s]
Num(n) == [t |-> "int", n |-> n]
Dec(n) == [t |-> "dec", n |-> n]
Bool(b) == [t |-> "bool", b |-> b]
\* a float, kept as the quotient num / den it was computed as
Flt(num, den) == [t |-> "float", num |-> num, den |-> den]
\* a list of strings; the empty list is always Lst(<<>>)
Lst(l) == [t |-> "list", l |-> l]
\* a non-empty list of dicts
DLst(d) == IF d = <<>> THEN Lst(<<>>) ELSE [t |-> "dlist", d |-> d]
\* a dict held as a value
Dct(r) == [t |-> "dict", r |-> r]
\* a non-empty list of dicts whose values are tagged values
Objs(o) == IF o = <<>> THEN Lst(<<>>) ELSE [t |-> "objs", o |-> o]

IsNone(v) == v.t = "none"
IsEmptyStr(v) == v.t = "str" /\ v.s = ""
IsList(v) == v.t \in {"list", "dlist"}
IsNumber(v) == v.t \in {"int", "dec"}
ListLen(v) == IF v.t = "list" THEN Len(v.l) ELSE Len(v.d)

\* the dicts of a list of dicts
Entries(v) == IF v.t = "dlist" THEN v.d ELSE <<>>
\* the strings of a list of strings
Strings(v) == IF v.t = "list" THEN v.l ELSE <<>>

\* Python truthiness (`if value`, `not value`)
Truthy(v) ==
    CASE v.t = "none" -> FALSE
      [] v.t = "str" -> v.s # ""
      [] v.t = "list" -> v.l # <<>>
      [] v.t = "dlist" -> TRUE
      [] v.t = "objs" -> TRUE
      [] v.t = "dict" -> DOMAIN v.r # {}
      [] v.t \in {"int", "dec"} -> v.n # 0
      [] v.t = "bool" -> v.b
      [] v.t = "float" -> v.num # 0

Range(s) == {s[i] : i \in 1..Len(s)}
NoDuplicates(s) == \A i, j \in 1..Len(s) : i # j => s[i] # s[j]

(***************************************************************************)
(* Records are Python dicts: functions from a finite set of keys to values *)
(***************************************************************************)
EmptyDict == [k \in {} |-> None]
\* dict.get(k)
Get(r, k) == IF k \in DOMAIN r THEN r[k] ELSE None
\* r[k] = v
SetKey(r, k, v) == [x \in (DOMAIN r) \cup {k} |-> IF x = k THEN v ELSE r[x]]

(***************************************************************************)
(* list(set(xs)): the elements of xs, each once, in the iteration order of *)
(* the hash set.  That order is not specified by the list; it is the input *)
(* setOrder, a permutation of the category universe.                       *)
(***************************************************************************)
ListOfSet(xs, setOrder) == SelectSeq(setOrder, LAMBDA c : c \in Range(xs))

(***************************************************************************)
(* {v.get("version"): v for v in versions if v.get("version")}             *)
(* An insertion-ordered dict keyed by label is a sequence of entries with  *)
(* pairwise different labels: assigning an existing key replaces the value *)
(* in place, assigning a new key appends.                                  *)
(***************************************************************************)
DictAssign(d, e) ==
    IF \E i \in 1..Len(d) : d[i].version = e.version
    THEN [i \in 1..Len(d) |-> IF d[i].version = e.version THEN e ELSE d[i]]
    ELSE Append(d, e)

RECURSIVE DictUpdate(_, _)
\* d.update(entries), entries with a falsy label skipped when filter is set
DictUpdate(d, entries) ==
    IF entries = <<>> THEN d
    ELSE DictUpdate(DictAssign(d, Head(entries)), Tail(entries))

HasLabel(e) == e.version # ""
VersionsByLabel(versions) == DictUpdate(<<>>, SelectSeq(versions, HasLabel))

\* variant: the overlay is applied the other way round (existing wins)
MergeVersionsExistingWins(existingVersions, newVersions) ==
    DictUpdate(VersionsByLabel(newVersions), VersionsByLabel(existingVersions))

\* variant: the two lists are concatenated instead of keyed by label
MergeVersionsAppend(existingVersions, newVersions) ==
    existingVersions \o newVersions

\* lines 301-308: existing_versions, new_versions, {**existing, **new}, list(values)
MergeVersions(existingVersions, newVersions) ==
    DictUpdate(VersionsByLabel(existingVersions), VersionsByLabel(newVersions))

\* lines 291-295, when both values are lists
MergeCategories(existingCats, newCats, setOrder) ==
    Lst(ListOfSet(existingCats \o newCats, setOrder))

\* variant: only None is skipped
SkipEmptyNoneOnly(value) == IsNone(value)

\* line 282: `if value is None or value == "": continue`
SkipEmpty(value) == IsNone(value) \/ IsEmptyStr(value)

\* One iteration of the loop at lines 280-315 for (key, value) of new.
MergeField(merged, existing, key, value, setOrder) ==
    IF SkipEmpty(value) THEN merged
    ELSE IF key = "authors" /\ "authors" \in DOMAIN existing
    THEN IF ~Truthy(value) THEN merged ELSE SetKey(merged, key, value)
    ELSE IF key = "categories" /\ "categories" \in DOMAIN existing
    THEN IF IsList(value) /\ IsList(existing["categories"])
         THEN SetKey(merged, "categories",
                     MergeCategories(existing["categories"].l, value.l, setOrder))
         ELSE SetKey(merged, key, value)
    ELSE IF key = "versions" /\ "versions" \in DOMAIN existing
    THEN IF IsList(value) /\ IsList(existing["versions"])
         THEN LET ev == Entries(existing["versions"])
                  nv == Entries(value)
                  all == MergeVersions(ev, nv)
              IN SetKey(SetKey(merged, "versions", DLst(all)),
                        "version_count", Num(Len(all)))
         ELSE SetKey(merged, key, value)
    ELSE SetKey(merged, key, value)

RECURSIVE MergeLoop(_, _, _, _, _)
MergeLoop(merged, existing, new, keys, setOrder) ==
    IF keys = <<>> THEN merged
    ELSE MergeLoop(MergeField(merged, existing, Head(keys), new[Head(keys)], setOrder),
                   existing, new, Tail(keys), setOrder)

\* _merge_records(existing, new); keys is the iteration order of new.items()
MergeRecords(existing, new, keys, setOrder) ==
    SetKey(MergeLoop(existing, existing, new, keys, setOrder),
           "last_processed", Get(new, "last_processed"))

(***************************************************************************)
(* Inputs of the merge specification                                       *)
(***************************************************************************)
CatNames == <<"cs.AI", "cs.LG", "math.CO", "stat.ML">>
Categories == {CatNames[i] : i \in 1..NumCategories}
LabelNames == <<"v1", "v2", "v3", "v4">>
\* "" stands for an entry whose label is missing, None or empty (all falsy)
Labels == {""} \cup {LabelNames[i] : i \in 1..NumLabels}
\* the created timestamp of the i-th entry of a list; it differs by side
\* ("E" existing, "N" incoming), so equal labels never mean equal entries
CreatedNames == [E |-> <<"E1", "E2", "E3", "E4">>, N |-> <<"N1", "N2", "N3", "N4">>]

SeqsUpTo(S, n) == UNION {[1..k -> S] : k \in 0..n}
\* all orders in which a hash set may enumerate the category universe
SetOrders == {s \in [1..NumCategories -> Categories] : NoDuplicates(s)}

VersionLists(side) ==
    {[i \in 1..Len(ls) |-> [version |-> ls[i], created |-> CreatedNames[side][i]]] :
        ls \in SeqsUpTo(Labels, MaxVersions)}

Author1 == [last_name |-> "Doe", first_name |-> "J"]
Author2 == [last_name |-> "Roe", first_name |-> "R"]

\* base extended by key with each of values, or left without key
WithOptional(base, key, values) == {base} \cup {SetKey(base, key, v) : v \in values}

ScalarRecords(base) ==
    WithOptional(base, "title", {None, Str(""), Str("T1"), Str("T2")})
AuthorRecords(base) ==
    WithOptional(base, "authors",
                 {None, Str(""), Lst(<<>>), DLst(<<Author1>>), DLst(<<Author2, Author1>>)})
CategoryRecords(base) ==
    WithOptional(base, "categories",
                 {None, Str("")} \cup {Lst(cs) : cs \in SeqsUpTo(Categories, MaxCats)})
VersionRecords(base, side) ==
    UNION {UNION {WithOptional(r, "version_count",
                               {None, Num(0)} \cup
                               (IF IsList(v) THEN {Num(ListLen(v))} ELSE {}))
                   : r \in {SetKey(base, "versions", v)}}
           : v \in {None, Str("")} \cup {DLst(vs) : vs \in VersionLists(side)}}
    \cup WithOptional(base, "version_count", {None, Num(1)})

ExistingBase == [k \in {"paper_id", "last_processed"} |->
                    IF k = "paper_id" THEN Str("p1") ELSE Str("t0")]
NewBase == [k \in {"paper_id", "last_processed"} |->
               IF k = "paper_id" THEN Str("p1") ELSE Str("t1")]
\* a transformer output carries no last_processed key
NewBaseNoStamp == [k \in {"paper_id"} |-> Str("p1")]

ExistingRecords ==
    ScalarRecords(ExistingBase) \cup AuthorRecords(ExistingBase)
    \cup CategoryRecords(ExistingBase) \cup VersionRecords(ExistingBase, "E")
    \cup {[k \in {"paper_id"} |-> Str("p1")]}
NewRecords ==
    ScalarRecords(NewBase) \cup AuthorRecords(NewBase)
    \cup CategoryRecords(NewBase) \cup VersionRecords(NewBase, "N")
    \cup ScalarRecords(NewBaseNoStamp)

\* insertion order of the keys of a transformer output
\* (transformer.py _clean_record lines 151-213), then last_processed
TransformerKeyOrder ==
    <<"paper_id", "title", "categories", "journal_ref", "is_published", "authors",
      "versions", "version_count", "last_processed">>
\* a dict built with version_count inserted before versions
CountFirstKeyOrder ==
    <<"paper_id", "title", "categories", "journal_ref", "is_published", "authors",
      "version_count", "versions", "last_processed">>
KeyOrders == {TransformerKeyOrder, CountFirstKeyOrder}
\* the keys of r in the given insertion order
KeysOf(r, order) == SelectSeq(order, LAMBDA k : k \in DOMAIN r)

(***************************************************************************)
(* SpecMerge: one call of _merge_records on drawn arguments                *)
(***************************************************************************)
\* _convert_types_for_dynamodb is not being exercised on its own
ConvertIdle ==
    /\ cpc = "idle"
    /\ cRecord = EmptyDict
    /\ cItem = EmptyDict

\* the institution extraction is not being exercised on its own
InstitutionIdle ==
    /\ ipc = "idle"
    /\ iRecord = [k \in {} |-> <<>>]
    /\ institution = [raised |-> "none", value |-> <<>>]

\* no ArxivProcessor is running
ProcessorIdle ==
    /\ xpc = "idle"
    /\ local_mode = FALSE
    /\ chunk_size = 1
    /\ file_lines = <<>>
    /\ line_i = 0
    /\ buffers = [k \in {} |-> <<>>]
    /\ counters = [k \in {} |-> 0]
    /\ processor_stats = [total_records |-> 0, successful_records |-> 0,
                          failed_records |-> 0]
    /\ processed_count = 0
    /\ written = {}

\* transform is not being exercised
TransformIdle ==
    /\ tpc = "idle"
    /\ raw_data = <<>>
    /\ records_by_id = EmptyDict
    /\ ids = <<>>
    /\ t_i = 0
    /\ transformed_records = <<>>
    /\ tstats = [input_records |-> 0, output_records |-> 0, failed_records |-> 0]
    /\ cleaned = EmptyDict
    /\ transform_calls = 0
    /\ pipeline_stats = [total_records |-> 0, successful_records |-> 0, failed_records |-> 0]

\* the calls of the construction under way
NoCalls == [describe |-> 0, create |-> 0, wait |-> 0, write |-> 0,
            answer |-> "none", raised |-> "none"]

\* no writer is being constructed
ConstructIdle ==
    /\ bpc = "idle"
    /\ boot_config = EmptyDict
    /\ attrs = EmptyDict
    /\ remote_table = "active"
    /\ calls = NoCalls
    /\ previous = <<>>
    /\ bfaults = 0

\* the writer is not used while _merge_records is exercised on its own
WriteIdle ==
    /\ config = [batch_size |-> 1, max_workers |-> 1, parallel_enabled |-> FALSE]
    /\ transformed_data = <<>>
    /\ batches = <<>>
    /\ table = EmptyDict
    /\ stats = [new_records |-> 0, updated_records |-> 0, failed_records |-> 0,
                status |-> "success"]
    /\ pc = "idle"
    /\ batch_queue = <<>>
    /\ active_futures = {}
    /\ done = {}
    /\ seq_i = 0
    /\ futures = <<>>
    /\ result = EmptyDict
    /\ faults = 0
    /\ submissions = <<>>
    /\ lastWrite = EmptyDict
    /\ write_calls = 0
    /\ injected = 0

InitMerge ==
    /\ WriteIdle
    /\ InstitutionIdle
    /\ ProcessorIdle
    /\ ConstructIdle
    /\ ConvertIdle
    /\ TransformIdle
    /\ mpc = "call"
    /\ \/ mExisting \in ExistingRecords /\ mNew \in NewRecords
       \/ mExisting \in ExistingRecords /\ mNew = mExisting
    /\ mKeys = <<>>
    /\ mMerged = EmptyDict

Merge ==
    /\ mpc = "call"
    /\ \E order \in KeyOrders, setOrder \in SetOrders :
          /\ mKeys' = KeysOf(mNew, order)
          /\ mMerged' = MergeRecords(mExisting, mNew, KeysOf(mNew, order), setOrder)
    /\ mpc' = "merged"
    /\ UNCHANGED <<mExisting, mNew>>
    /\ UNCHANGED <<writeVars, restVars>>

NextMerge == Merge
SpecMerge == InitMerge /\ [][NextMerge]_vars

(***************************************************************************)
(* Properties of _merge_records (checked under SpecMerge)                  *)
(***************************************************************************)
Merged == mpc = "merged"
HasList(r, k) == k \in DOMAIN r /\ IsList(r[k])
LabelsOf(entries) == {entries[i].version : i \in 1..Len(entries)}
NamedLabelsOf(entries) == LabelsOf(entries) \ {""}
\* the last entry of entries that carries label l
LastWithLabel(entries, l) ==
    entries[CHOOSE i \in 1..Len(entries) :
                /\ entries[i].version = l
                /\ \A j \in (i+1)..Len(entries) : entries[j].version # l]
\* Python ==, on the values of the model (Decimal(2) == 2)
ValEq(a, b) == IF IsNumber(a) /\ IsNumber(b) THEN a.n = b.n ELSE a = b

\* C1: after _merge_records(existing, new) where both records carry a
\* versions list, the merged version_count equals the number of entries of
\* the merged versions list.
C1_VersionCountIsMergedLength ==
    (Merged /\ HasList(mExisting, "versions") /\ HasList(mNew, "versions")) =>
        /\ "version_count" \in DOMAIN mMerged
        /\ IsNumber(mMerged["version_count"])
        /\ mMerged["version_count"].n = ListLen(mMerged["versions"])

\* incoming value that the claim calls empty for key k
EmptyIncoming(k, v) == IsNone(v) \/ IsEmptyStr(v) \/ (k = "authors" /\ v = Lst(<<>>))

\* C2 (as stated): for every field other than last_processed, an incoming
\* None / "" (for authors also []) leaves the existing record's value for
\* that field unchanged in the merged record.
C2_EmptyLeavesEveryFieldUnchanged ==
    Merged =>
        \A k \in ((DOMAIN mNew) \cap (DOMAIN mExisting)) \ {"last_processed"} :
            EmptyIncoming(k, mNew[k]) =>
                (k \in DOMAIN mMerged /\ mMerged[k] = mExisting[k])

\* C2 (amended): for every field other than last_processed and
\* version_count, an incoming None / "" (for authors also []) leaves the
\* existing record's value for that field unchanged in the merged record.
C2_EmptyNeverOverwrites ==
    Merged =>
        \A k \in ((DOMAIN mNew) \cap (DOMAIN mExisting))
                    \ {"last_processed", "version_count"} :
            EmptyIncoming(k, mNew[k]) =>
                (k \in DOMAIN mMerged /\ mMerged[k] = mExisting[k])

\* C2 witness: a stored non-empty value met an empty incoming value
C2_Witness ==
    /\ Merged
    /\ \E k \in (DOMAIN mNew) \ {"last_processed", "version_count"} :
          /\ EmptyIncoming(k, mNew[k])
          /\ k \in DOMAIN mExisting /\ Truthy(mExisting[k])
          /\ mMerged[k] = mExisting[k]

\* C6: for every existing record (also one without a categories field) and
\* every incoming record carrying a categories list, the merged categories
\* contain every existing and every incoming category, none of them twice.
C6_CategoriesUnionNoDuplicates ==
    (Merged /\ HasList(mNew, "categories")) =>
        /\ HasList(mMerged, "categories")
        /\ Range(Strings(mNew["categories"])) \subseteq Range(Strings(mMerged["categories"]))
        /\ HasList(mExisting, "categories") =>
              Range(Strings(mExisting["categories"]))
                  \subseteq Range(Strings(mMerged["categories"]))
        /\ NoDuplicates(Strings(mMerged["categories"]))

\* r and m agree on key k (categories compared as sets)
FieldAgrees(r, m, k) ==
    /\ k \in DOMAIN r /\ k \in DOMAIN m
    /\ IF k = "categories" /\ IsList(r[k]) /\ IsList(m[k])
       THEN Range(Strings(r[k])) = Range(Strings(m[k]))
       ELSE ValEq(r[k], m[k])
EqualExceptLastProcessed(r, m) ==
    \A k \in ((DOMAIN r) \cup (DOMAIN m)) \ {"last_processed"} : FieldAgrees(r, m, k)

\* C7 (as stated): _merge_records(r, r) equals r on every field except
\* last_processed, for every record r.
C7_IdempotentForEveryRecord ==
    (Merged /\ mNew = mExisting) => EqualExceptLastProcessed(mExisting, mMerged)

\* a versions list keyed by label: labels non-empty and pairwise different,
\* and version_count present and equal to the length of the list
VersionsKeyedByLabel(r) ==
    HasList(r, "versions") =>
        /\ "" \notin LabelsOf(Entries(r["versions"]))
        /\ Cardinality(LabelsOf(Entries(r["versions"]))) = ListLen(r["versions"])
        /\ "version_count" \in DOMAIN r
        /\ IsNumber(r["version_count"])
        /\ r["version_count"].n = ListLen(r["versions"])

\* C7 (amended): _merge_records(r, r) equals r on every field except
\* last_processed (categories compared as sets) for every record r whose
\* versions list, if any, has non-empty pairwise different labels and whose
\* version_count is the length of that list.
C7_Idempotent ==
    (Merged /\ mNew = mExisting /\ VersionsKeyedByLabel(mExisting)) =>
        EqualExceptLastProcessed(mExisting, mMerged)

\* C7 witness: a record with two labelled versions and repeated-free labels
\* merged into itself
C7_Witness ==
    /\ Merged /\ mNew = mExisting /\ VersionsKeyedByLabel(mExisting)
    /\ HasList(mExisting, "versions") /\ ListLen(mExisting["versions"]) >= 2
    /\ mMerged["versions"] = mExisting["versions"]

BothVersionLists == Merged /\ HasList(mExisting, "versions") /\ HasList(mNew, "versions")

\* C8 (as stated): a label on both sides resolves to the incoming entry, a
\* label on one side only is kept, every label appears exactly once.
C8_EveryLabelResolved ==
    BothVersionLists =>
        LET ev == Entries(mExisting["versions"])
            nv == Entries(mNew["versions"])
            mv == Entries(mMerged["versions"])
        IN /\ \A l \in LabelsOf(ev) \cap LabelsOf(nv) :
                 \E i \in 1..Len(mv) : mv[i].version = l /\ mv[i] \in Range(nv)
           /\ \A l \in LabelsOf(ev) \cup LabelsOf(nv) :
                 Cardinality({i \in 1..Len(mv) : mv[i].version = l}) = 1

\* C8 (amended): for non-empty labels: a label on both sides resolves to the
\* (last) incoming entry, a label on one side only keeps that side's (last)
\* entry, every label appears exactly once; entries with a missing or
\* empty label are not in the merged list.
C8_NamedLabelsResolved ==
    BothVersionLists =>
        LET ev == Entries(mExisting["versions"])
            nv == Entries(mNew["versions"])
            mv == Entries(mMerged["versions"])
        IN /\ NamedLabelsOf(mv) = NamedLabelsOf(ev) \cup NamedLabelsOf(nv)
           /\ "" \notin LabelsOf(mv)
           /\ \A l \in NamedLabelsOf(mv) :
                 /\ Cardinality({i \in 1..Len(mv) : mv[i].version = l}) = 1
                 /\ LastWithLabel(mv, l) =
                       IF l \in LabelsOf(nv) THEN LastWithLabel(nv, l)
                       ELSE LastWithLabel(ev, l)

\* C8 witness: one label on both sides, another on one side only
C8_Witness ==
    /\ BothVersionLists
    /\ LET ev == Entries(mExisting["versions"])
           nv == Entries(mNew["versions"])
       IN /\ NamedLabelsOf(ev) \cap NamedLabelsOf(nv) # {}
          /\ NamedLabelsOf(ev) \ NamedLabelsOf(nv) # {}
          /\ mNew # mExisting
          /\ Len(Entries(mMerged["versions"])) = 2

(***************************************************************************)
(* write(): configuration and inputs                                       *)
(***************************************************************************)
BatchLimit == 25            \* line 38: DynamoDB batch write limit
MaxConcurrentCeiling == 5   \* line 102: min(5, self.max_workers)

Min(a, b) == IF a < b THEN a ELSE b

\* variant: the configured batch size is used as it is
EffectiveBatchSizeNoCap(configured) == configured

\* line 38: self.batch_size = min(config.get("batch_size", 25), 25)
EffectiveBatchSize(configured) == Min(configured, BatchLimit)

\* variant: the ceiling on concurrent batches is not applied
MaxConcurrentNoCeiling(max_workers) == max_workers

\* line 102: max_concurrent = min(5, self.max_workers)
MaxConcurrent(max_workers) == Min(MaxConcurrentCeiling, max_workers)

\* lines 88-91: the list of batches of data at the given batch size
Batches(data, size) ==
    [i \in 1..((Len(data) + size - 1) \div size) |->
        SubSeq(data, (i - 1) * size + 1, Min(i * size, Len(data)))]
NumBatches == Len(batches)

\* transformer outputs (no last_processed key), keys as in TransformerKeyOrder
PaperRecord(paper_id, cats, labels, journal_ref) ==
    [k \in {"paper_id", "categories", "journal_ref", "is_published", "versions",
             "version_count"} |->
        CASE k = "paper_id" -> Str(paper_id)
          [] k = "categories" -> Lst(cats)
          \* lines 164-165: is_published = bool(journal_ref)
          [] k = "journal_ref" -> Str(journal_ref)
          [] k = "is_published" -> Bool(journal_ref # "")
          [] k = "versions" ->
                DLst([i \in 1..Len(labels) |->
                        [version |-> labels[i], created |-> CreatedNames["N"][i]]])
          [] k = "version_count" -> Num(Len(labels))]

\* p1 with a journal reference, then p1 again without one
RecordP1a == PaperRecord("p1", <<CatNames[1]>>, <<"v1">>, "J1")
RecordP1b == PaperRecord("p1", <<CatNames[2]>>, <<"v2">>, "")
RecordP2 == PaperRecord("p2", <<CatNames[1]>>, <<"v1">>, "")
\* a record whose paper_id is empty (line 217)
RecordNoId == PaperRecord("", <<CatNames[1]>>, <<"v1">>, "")
RecordPool == {RecordP1a, RecordP1b, RecordP2}

\* inputs with mixed records, small batches, one or two workers
MixedInputs ==
    {[data |-> d, faults |-> MaxFaults,
      config |-> [batch_size |-> bs, max_workers |-> mw,
                  parallel_enabled |-> par]] :
        d \in SeqsUpTo(RecordPool, MaxRecords),
        bs \in {1, 2, BatchLimit + 1}, mw \in {1, 2}, par \in BOOLEAN}

\* inputs with more one-record batches than the ceiling on concurrent batches:
\* one paper record followed by records without paper_id (which take a single
\* step each); failures are injected into the sequential runs only
WindowData == [i \in 1..WindowBatches |-> IF i = 1 THEN RecordP1a ELSE RecordNoId]
WindowInputs ==
    {[data |-> WindowData, faults |-> 0,
      config |-> [batch_size |-> 1, max_workers |-> mw,
                  parallel_enabled |-> TRUE]] :
        mw \in {MaxConcurrentCeiling - 1, MaxConcurrentCeiling + 1}}
    \cup
    {[data |-> WindowData, faults |-> MaxFaults,
      config |-> [batch_size |-> 1,
                  max_workers |-> MaxConcurrentCeiling, parallel_enabled |-> FALSE]]}

\* inputs one record longer than the store's batch limit, at configured batch
\* sizes around and above the limit; the first two records are of one paper
LimitData ==
    [i \in 1..(BatchLimit + 1) |->
        IF i = 1 THEN RecordP1a ELSE IF i = 2 THEN RecordP1b ELSE RecordNoId]
LimitInputs ==
    {[data |-> LimitData, faults |-> 0,
      config |-> [batch_size |-> bs, max_workers |-> 2, parallel_enabled |-> par]] :
        bs \in {BatchLimit - 1, BatchLimit, BatchLimit + 1, BatchLimit + 5},
        par \in BOOLEAN}

(***************************************************************************)
(* The store                                                               *)
(***************************************************************************)
\* get_item found nothing (response.get("Item") is None); also the value of
\* existing_record between two records
NoRecord == EmptyDict

RECURSIVE ConvertTypes(_)
\* _convert_types_for_dynamodb on one value (lines 348-383): the dicts of a
\* list of dicts and a nested dict are converted in turn, a number becomes a
\* Decimal, everything else (strings, booleans, lists of strings) is copied.
\* The entries of a versions list ("dlist") hold non-empty strings only and
\* are copied as they are.
ConvertValue(v) ==
    CASE v.t = "objs" -> Objs([i \in 1..Len(v.o) |-> ConvertTypes(v.o[i])])
      [] v.t = "dict" -> Dct(ConvertTypes(v.r))
      [] v.t = "int" -> Dec(v.n)
      [] OTHER -> v

\* _convert_types_for_dynamodb (lines 335-385): None and empty lists are
\* left out, every other value is converted and kept.
ConvertTypes(record) ==
    [k \in {x \in DOMAIN record : ~IsNone(record[x]) /\ record[x] # Lst(<<>>)} |->
        ConvertValue(record[k])]

\* variant: the record is stored as it came, without the merge
ItemToPutNoMerge(existing_record, record, setOrder) == record

\* lines 225-232: the record handed to _put_record
ItemToPut(existing_record, record, setOrder) ==
    IF existing_record # NoRecord
    THEN MergeRecords(existing_record, record, KeysOf(record, TransformerKeyOrder), setOrder)
    ELSE record

PaperId(record) == Get(record, "paper_id")

\* variant: the point lookup never finds an item
LookupMiss(tbl, paper_id) == NoRecord

\* lines 254-259: get_item(Key={"paper_id": paper_id}) and response.get("Item")
Lookup(tbl, paper_id) == IF paper_id \in DOMAIN tbl THEN tbl[paper_id] ELSE NoRecord

\* variant: every record that was put is counted as new
CounterAlwaysNew(existing_record) == "new_records"

\* lines 225-233: "if existing_record:" chooses the counter; None and an
\* empty item are both falsy
CounterFor(existing_record) ==
    IF existing_record # NoRecord THEN "updated_records" ELSE "new_records"

\* variant: a batch that raised adds nothing to failed_records
FailedOnRaiseNone(batch) == 0

\* lines 147-148: self.stats["failed_records"] += len(batch)
FailedOnRaise(batch) == Len(batch)

\* variant: the queue is popped at its end
PopRight(queue) == [idx |-> queue[Len(queue)], rest |-> SubSeq(queue, 1, Len(queue) - 1)]

\* lines 108 / 139: batch_idx = batch_queue.pop(0)
PopLeft(queue) == [idx |-> Head(queue), rest |-> Tail(queue)]

(***************************************************************************)
(* Spec: initial state, after __init__ and before write is called          *)
(***************************************************************************)
MergeIdle ==
    /\ mpc = "idle"
    /\ mExisting = EmptyDict
    /\ mNew = EmptyDict
    /\ mKeys = <<>>
    /\ mMerged = EmptyDict

\* the future of a batch that has not been submitted
PendingFuture ==
    [state |-> "pending", collected |-> FALSE, pos |-> 1, phase |-> "get",
     existing_record |-> NoRecord, lookup_error |-> FALSE, puts |-> {},
     result |-> [new_records |-> 0, updated_records |-> 0, failed_records |-> 0]]

Init ==
    /\ MergeIdle
    /\ InstitutionIdle
    /\ ProcessorIdle
    /\ ConstructIdle
    /\ ConvertIdle
    /\ TransformIdle
    /\ \E in \in MixedInputs \cup WindowInputs \cup LimitInputs :
          /\ config = in.config
          /\ transformed_data = in.data
          /\ faults = in.faults
    /\ batches = <<>>
    /\ futures = <<>>
    /\ submissions = <<>>
    /\ table = EmptyDict
    /\ stats = [new_records |-> 0, updated_records |-> 0, failed_records |-> 0,
                status |-> "success"]
    /\ pc = "start"
    /\ batch_queue = <<>>
    /\ active_futures = {}
    /\ done = {}
    /\ seq_i = 0
    /\ result = EmptyDict
    /\ lastWrite = EmptyDict
    /\ write_calls = 1
    /\ injected = 0

(***************************************************************************)
(* The dispatcher thread: write (lines 62-196)                             *)
(***************************************************************************)
ZeroCounts == [new_records |-> 0, updated_records |-> 0, failed_records |-> 0]

\* lines 127-129 / 162-164: add a batch result to the statistics
AddResult(st, res) ==
    [st EXCEPT !.new_records = @ + res.new_records,
               !.updated_records = @ + res.updated_records,
               !.failed_records = @ + res.failed_records]

\* lines 190-196: the returned dict
ReturnValue(st) ==
    [status |-> st.status, new_records |-> st.new_records,
     updated_records |-> st.updated_records, failed_records |-> st.failed_records]

\* executor.submit(self._process_batch, batch) / self._process_batch(batch)
Started(fs, idx) == [fs EXCEPT ![idx].state = "running"]

\* lines 73-104: empty input returns at once; otherwise the statistics are
\* reset, the batches are cut and one of the two paths is entered
WriteStart ==
    /\ pc = "start"
    /\ IF transformed_data = <<>>
       THEN /\ result' = [status |-> "success", new_records |-> 0, updated_records |-> 0]
            /\ pc' = "returned"
            /\ UNCHANGED <<stats, batches, batch_queue, seq_i, futures, submissions>>
       ELSE LET bs == Batches(transformed_data, EffectiveBatchSize(config.batch_size)) IN
            /\ stats' = [stats EXCEPT !.new_records = 0, !.updated_records = 0,
                                      !.failed_records = 0]
            /\ batches' = bs
            /\ futures' = [b \in 1..Len(bs) |-> PendingFuture]
            /\ submissions' = [b \in 1..Len(bs) |-> 0]
            /\ IF config.parallel_enabled /\ Len(bs) > 1
               THEN /\ pc' = "submit"
                    /\ batch_queue' = [i \in 1..Len(bs) |-> i]
                    /\ UNCHANGED seq_i
               ELSE /\ pc' = "seq"
                    /\ seq_i' = 1
                    /\ UNCHANGED batch_queue
            /\ UNCHANGED result
    /\ UNCHANGED <<config, write_calls, transformed_data, table, active_futures, done, faults, injected, lastWrite>>
    /\ UNCHANGED <<mergeVars, restVars>>

\* lines 107-110: one iteration of the initial submission loop
InitialSubmit ==
    /\ pc = "submit"
    /\ batch_queue # <<>>
    /\ Cardinality(active_futures) < MaxConcurrent(config.max_workers)
    /\ LET idx == PopLeft(batch_queue).idx IN
          /\ batch_queue' = PopLeft(batch_queue).rest
          /\ futures' = Started(futures, idx)
          /\ submissions' = [submissions EXCEPT ![idx] = @ + 1]
          /\ active_futures' = active_futures \cup {idx}
          /\ pc' = IF PopLeft(batch_queue).rest # <<>>
                      /\ Cardinality(active_futures \cup {idx})
                            < MaxConcurrent(config.max_workers)
                   THEN "submit" ELSE "wait"
    /\ UNCHANGED <<config, write_calls, transformed_data, batches, table, stats, done, seq_i, result,
                   faults, injected, lastWrite>>
    /\ UNCHANGED <<mergeVars, restVars>>

Completed(b) == futures[b].state \in {"done", "raised"}

\* lines 113-118: wait(..., FIRST_COMPLETED) returns the completed futures
Wait ==
    /\ pc = "wait"
    /\ active_futures # {}
    /\ \E b \in active_futures : Completed(b)
    /\ done' = {b \in active_futures : Completed(b)}
    /\ pc' = "collect"
    /\ UNCHANGED <<config, write_calls, transformed_data, batches, table, stats, batch_queue, active_futures,
                   seq_i, futures, result, faults, injected, submissions, lastWrite>>
    /\ UNCHANGED <<mergeVars, restVars>>

\* lines 137-143 / 150-154: submit the next queued batch, if any, after the
\* future b has been popped from active_futures
SubmitNext(b, fs) ==
    IF batch_queue # <<>>
    THEN /\ batch_queue' = PopLeft(batch_queue).rest
         /\ futures' = Started(fs, PopLeft(batch_queue).idx)
         /\ submissions' = [submissions EXCEPT ![PopLeft(batch_queue).idx] = @ + 1]
         /\ active_futures' = (active_futures \ {b}) \cup {PopLeft(batch_queue).idx}
    ELSE /\ futures' = fs
         /\ active_futures' = active_futures \ {b}
         /\ UNCHANGED <<batch_queue, submissions>>

\* lines 121-143: a future of done whose result() returns
CollectDone(b) ==
    /\ pc = "collect"
    /\ b \in done
    /\ futures[b].state = "done"
    /\ stats' = AddResult(stats, futures[b].result)
    /\ SubmitNext(b, [futures EXCEPT ![b].collected = TRUE])
    /\ done' = done \ {b}
    /\ pc' = IF done \ {b} = {} THEN "wait" ELSE "collect"
    /\ UNCHANGED <<config, write_calls, transformed_data, batches, table, seq_i, result, faults, injected, lastWrite>>
    /\ UNCHANGED <<mergeVars, restVars>>

\* lines 121-124, 145-154: a future of done whose result() raises
CollectRaised(b) ==
    /\ pc = "collect"
    /\ b \in done
    /\ futures[b].state = "raised"
    /\ stats' = [stats EXCEPT !.failed_records = @ + FailedOnRaise(batches[b])]
    /\ SubmitNext(b, [futures EXCEPT ![b].collected = TRUE])
    /\ done' = done \ {b}
    /\ pc' = IF done \ {b} = {} THEN "wait" ELSE "collect"
    /\ UNCHANGED <<config, write_calls, transformed_data, batches, table, seq_i, result, faults, injected, lastWrite>>
    /\ UNCHANGED <<mergeVars, restVars>>

\* lines 158-159: the sequential loop calls _process_batch in this thread
SeqCall ==
    /\ pc = "seq"
    /\ seq_i <= NumBatches
    /\ futures[seq_i].state = "pending"
    /\ futures' = Started(futures, seq_i)
    /\ submissions' = [submissions EXCEPT ![seq_i] = @ + 1]
    /\ UNCHANGED <<config, write_calls, transformed_data, batches, table, stats, pc, batch_queue,
                   active_futures, done, seq_i, result, faults, injected, lastWrite>>
    /\ UNCHANGED <<mergeVars, restVars>>

\* lines 159-171: the call returned; add its result and go on
SeqCollect ==
    /\ pc = "seq"
    /\ seq_i <= NumBatches
    /\ futures[seq_i].state = "done"
    /\ stats' = AddResult(stats, futures[seq_i].result)
    /\ futures' = [futures EXCEPT ![seq_i].collected = TRUE]
    /\ seq_i' = seq_i + 1
    /\ UNCHANGED <<config, write_calls, transformed_data, batches, table, pc, batch_queue, active_futures,
                   done, result, faults, injected, submissions, lastWrite>>
    /\ UNCHANGED <<mergeVars, restVars>>

\* lines 159, 183-196: the call raised; the exception leaves the loop and is
\* caught by the handler of write, which returns
SeqRaised ==
    /\ pc = "seq"
    /\ seq_i <= NumBatches
    /\ futures[seq_i].state = "raised"
    /\ stats' = [stats EXCEPT !.status = "error"]
    /\ futures' = [futures EXCEPT ![seq_i].collected = TRUE]
    /\ result' = ReturnValue([stats EXCEPT !.status = "error"])
    /\ pc' = "returned"
    /\ UNCHANGED <<config, write_calls, transformed_data, batches, table, batch_queue, active_futures,
                   done, seq_i, faults, injected, submissions, lastWrite>>
    /\ UNCHANGED <<mergeVars, restVars>>

\* lines 173-196: both loops are left normally
Finish ==
    /\ \/ pc = "wait" /\ active_futures = {}
       \/ pc = "seq" /\ seq_i > NumBatches
    /\ result' = ReturnValue(stats)
    /\ pc' = "returned"
    /\ UNCHANGED <<config, write_calls, transformed_data, batches, table, stats, batch_queue, active_futures,
                   done, seq_i, futures, faults, injected, submissions, lastWrite>>
    /\ UNCHANGED <<mergeVars, restVars>>

\* the records of a later call of write on the same writer
AgainInputs == {<<>>, <<RecordP2>>}

\* write is called again on the same instance after it returned: self.stats,
\* the configuration and the table are those the previous call left
WriteAgain ==
    /\ pc = "returned"
    /\ write_calls < MaxWrites
    /\ write_calls' = write_calls + 1
    /\ transformed_data' \in AgainInputs
    /\ pc' = "start"
    /\ batches' = <<>>
    /\ futures' = <<>>
    /\ submissions' = <<>>
    /\ batch_queue' = <<>>
    /\ active_futures' = {}
    /\ done' = {}
    /\ seq_i' = 0
    /\ result' = EmptyDict
    /\ UNCHANGED <<config, table, stats, faults, injected, lastWrite>>
    /\ UNCHANGED <<mergeVars, restVars>>

(***************************************************************************)
(* A pool worker (or the dispatcher, sequentially): _process_batch         *)
(***************************************************************************)
Running(b) == b \in DOMAIN futures /\ futures[b].state = "running"
CurrentRecord(b) == batches[b][futures[b].pos]

\* the record at pos is finished and counted under counter; go to the next
\* record, or to the end of the loop (puts: the positions of this batch whose
\* put_item returned)
NextRecord(f, b, counter) ==
    [f EXCEPT !.result[counter] = @ + 1,
              !.puts = IF counter = "failed_records" THEN @ ELSE @ \cup {f.pos},
              !.pos = @ + 1,
              !.phase = IF f.pos + 1 > Len(batches[b]) THEN "return" ELSE "get",
              !.existing_record = NoRecord,
              !.lookup_error = FALSE]

workerFrame == <<config, write_calls, transformed_data, batches, stats, pc, batch_queue, active_futures,
                 done, seq_i, result, submissions>>

\* lines 216-223, 254-259: paper_id check and point lookup
GetExisting(b) ==
    /\ Running(b)
    /\ futures[b].phase = "get"
    /\ LET record == CurrentRecord(b)
           paper_id == PaperId(record)
       IN IF ~Truthy(paper_id)
          THEN futures' = [futures EXCEPT ![b] = NextRecord(@, b, "failed_records")]
          ELSE futures' = [futures EXCEPT
                             ![b].existing_record = Lookup(table, paper_id.s),
                             ![b].phase = "put"]
    /\ UNCHANGED <<table, faults, injected, lastWrite>>
    /\ UNCHANGED workerFrame
    /\ UNCHANGED <<mergeVars, restVars>>

\* lines 254-263: get_item fails with a ClientError; _get_existing_record
\* logs it and returns None
GetClientError(b) ==
    /\ Running(b)
    /\ futures[b].phase = "get"
    /\ Truthy(PaperId(CurrentRecord(b)))
    /\ faults > 0
    /\ faults' = faults - 1
    /\ injected' = injected + 1
    /\ futures' = [futures EXCEPT ![b].existing_record = NoRecord,
                                  ![b].lookup_error = TRUE,
                                  ![b].phase = "put"]
    /\ UNCHANGED <<table, lastWrite>>
    /\ UNCHANGED workerFrame
    /\ UNCHANGED <<mergeVars, restVars>>

\* lines 223, 235-237: get_item fails with an exception that is not a
\* ClientError; the per-record handler counts the record as failed
GetRaises(b) ==
    /\ Running(b)
    /\ futures[b].phase = "get"
    /\ Truthy(PaperId(CurrentRecord(b)))
    /\ faults > 0
    /\ faults' = faults - 1
    /\ injected' = injected + 1
    /\ futures' = [futures EXCEPT ![b] = NextRecord(@, b, "failed_records")]
    /\ UNCHANGED <<table, lastWrite>>
    /\ UNCHANGED workerFrame
    /\ UNCHANGED <<mergeVars, restVars>>

\* lines 225-233, 322-333: merge if a record was found, convert, put_item
PutRecord(b) ==
    /\ Running(b)
    /\ futures[b].phase = "put"
    /\ LET record == CurrentRecord(b)
           paper_id == PaperId(record).s
           existing_record == futures[b].existing_record
       IN /\ \E setOrder \in SetOrders :
                table' = SetKey(table, paper_id,
                                ConvertTypes(ItemToPut(existing_record, record, setOrder)))
          /\ lastWrite' = SetKey(lastWrite, paper_id,
                                 [read |-> existing_record, record |-> record,
                                  before |-> IF paper_id \in DOMAIN table
                                             THEN table[paper_id] ELSE NoRecord])
          /\ futures' = [futures EXCEPT ![b] =
                            NextRecord(@, b, CounterFor(existing_record))]
    /\ UNCHANGED <<faults, injected>>
    /\ UNCHANGED workerFrame
    /\ UNCHANGED <<mergeVars, restVars>>

\* lines 228/232, 235-237: put_item fails; the record is counted as failed
PutRaises(b) ==
    /\ Running(b)
    /\ futures[b].phase = "put"
    /\ faults > 0
    /\ faults' = faults - 1
    /\ injected' = injected + 1
    /\ futures' = [futures EXCEPT ![b] = NextRecord(@, b, "failed_records")]
    /\ UNCHANGED <<table, lastWrite>>
    /\ UNCHANGED workerFrame
    /\ UNCHANGED <<mergeVars, restVars>>

\* lines 239-242: the loop is over; sleep and return the result
BatchReturn(b) ==
    /\ Running(b)
    /\ futures[b].phase = "return"
    /\ futures' = [futures EXCEPT ![b].state = "done"]
    /\ UNCHANGED <<table, faults, injected, lastWrite>>
    /\ UNCHANGED workerFrame
    /\ UNCHANGED <<mergeVars, restVars>>

\* an exception escapes _process_batch (nothing in it catches what the
\* per-record handler at lines 235-237 does not); records already put stay
BatchRaises(b) ==
    /\ Running(b)
    /\ faults > 0
    /\ faults' = faults - 1
    /\ injected' = injected + 1
    /\ futures' = [futures EXCEPT ![b].state = "raised"]
    /\ UNCHANGED <<table, lastWrite>>
    /\ UNCHANGED workerFrame
    /\ UNCHANGED <<mergeVars, restVars>>

Next ==
    \/ WriteStart
    \/ InitialSubmit
    \/ Wait
    \/ \E b \in DOMAIN futures : CollectDone(b)
    \/ \E b \in DOMAIN futures : CollectRaised(b)
    \/ SeqCall
    \/ SeqCollect
    \/ SeqRaised
    \/ Finish
    \/ WriteAgain
    \/ \E b \in DOMAIN futures : GetExisting(b)
    \/ \E b \in DOMAIN futures : GetClientError(b)
    \/ \E b \in DOMAIN futures : GetRaises(b)
    \/ \E b \in DOMAIN futures : PutRecord(b)
    \/ \E b \in DOMAIN futures : PutRaises(b)
    \/ \E b \in DOMAIN futures : BatchReturn(b)
    \/ \E b \in DOMAIN futures : BatchRaises(b)

Spec == Init /\ [][Next]_vars

(***************************************************************************)
(* Properties of write and _process_batch (checked under Spec)             *)
(***************************************************************************)
Returned == pc = "returned"

RECURSIVE SumSeq(_)
SumSeq(xs) == IF xs = <<>> THEN 0 ELSE Head(xs) + SumSeq(Tail(xs))

\* the step finishes the record at the current position of batch b
RecordFinished(b) ==
    /\ Running(b)
    /\ futures'[b].pos = futures[b].pos + 1
\* ... and a store call made for that record failed: the lookup earlier
\* (ClientError) or the lookup or the put in this very step
StoreCallFailed(b) == futures[b].lookup_error \/ faults' < faults

\* C3: when the point lookup or the point write for a record fails with a
\* store error, the record is counted in failed_records (not in new_records
\* or updated_records), the stored item is left unchanged, and the batch goes
\* on with its remaining records.
C3_StoreErrorCountsFailed ==
    [][\A b \in DOMAIN futures :
          (RecordFinished(b) /\ StoreCallFailed(b)) =>
              /\ futures'[b].result =
                    [futures[b].result EXCEPT !.failed_records = @ + 1]
              /\ table' = table
              /\ futures'[b].state = "running"]_vars

\* the cut of the input that write makes, whether or not it got that far
ExpectedBatches == Batches(transformed_data, EffectiveBatchSize(config.batch_size))
Raised(b) == futures[b].state = "raised"

\* C4: whenever the processing of a batch raises, write adds exactly that
\* batch's record count to failed_records, does not re-run the batch, and
\* still processes every other batch and includes its counts in the result,
\* on the parallel and on the sequential path.
C4_RaisedBatchCountedOthersProcessed ==
    (Returned /\ transformed_data # <<>>) =>
        /\ DOMAIN futures = 1..Len(ExpectedBatches)
        /\ \A b \in DOMAIN futures : Completed(b) /\ submissions[b] = 1
        /\ result.failed_records =
              SumSeq([b \in DOMAIN futures |->
                        IF Raised(b) THEN Len(batches[b])
                        ELSE futures[b].result.failed_records])
        /\ result.new_records =
              SumSeq([b \in DOMAIN futures |->
                        IF Raised(b) THEN 0 ELSE futures[b].result.new_records])
        /\ result.updated_records =
              SumSeq([b \in DOMAIN futures |->
                        IF Raised(b) THEN 0 ELSE futures[b].result.updated_records])

\* the categories and the non-empty version labels of an item
CategoriesOf(item) == Range(Strings(Get(item, "categories")))
VersionLabelsOf(item) == NamedLabelsOf(Entries(Get(item, "versions")))

\* C5: the last full-item put wins: the item stored under a paper_id is
\* what its last writer made of its own lookup and its own record, whatever
\* was put between that lookup and that put; so a lost update is reachable
\* (C5_LostUpdate).
C5_LastPutWins ==
    \A p \in DOMAIN table :
        /\ p \in DOMAIN lastWrite
        /\ \E setOrder \in SetOrders :
              table[p] =
                ConvertTypes(IF lastWrite[p].read = NoRecord
                             THEN lastWrite[p].record
                             ELSE MergeRecords(lastWrite[p].read, lastWrite[p].record,
                                               KeysOf(lastWrite[p].record,
                                                      TransformerKeyOrder),
                                               setOrder))

\* C5 witness: no failure was injected and write returned success with
\* every record counted as written, the last writer of a paper_id had looked
\* the item up before another batch put it, and a category and a version
\* label that the other batch had stored are missing from the stored item.
C5_LostUpdate ==
    /\ Returned /\ transformed_data # <<>>
    /\ faults = MaxFaults
    /\ result.status = "success" /\ result.failed_records = 0
    /\ \E p \in DOMAIN table :
          /\ lastWrite[p].before # lastWrite[p].read
          /\ CategoriesOf(lastWrite[p].before) \ CategoriesOf(table[p]) # {}
          /\ VersionLabelsOf(lastWrite[p].before) \ VersionLabelsOf(table[p]) # {}

ParallelPath == config.parallel_enabled /\ NumBatches > 1
\* batches handed to the pool and not yet collected by the dispatcher
InFlight == {b \in DOMAIN futures : futures[b].state # "pending" /\ ~futures[b].collected}

\* C9: on the parallel path the number of batches submitted and not yet
\* collected never exceeds min(max_workers, 5).
C9_WindowBounded ==
    ParallelPath =>
        Cardinality(InFlight) <= Min(config.max_workers, MaxConcurrentCeiling)

\* C9 witness: more workers than the ceiling, five batches in flight, some of
\* them completed, and a batch still queued
C9_Witness ==
    /\ ParallelPath
    /\ config.max_workers > MaxConcurrentCeiling
    /\ Cardinality(InFlight) = MaxConcurrentCeiling
    /\ \E b \in InFlight : Completed(b)
    /\ batch_queue # <<>>

\* C10: write returns only after every batch has been handed to
\* _process_batch exactly once and has completed and been collected.
C10_ReturnsAfterEveryBatch ==
    Returned =>
        \A b \in 1..Len(ExpectedBatches) :
            /\ b \in DOMAIN futures
            /\ submissions[b] = 1
            /\ Completed(b)
            /\ futures[b].collected

\* write has cut its input into batches
Cut == pc # "start" /\ transformed_data # <<>>

RECURSIVE Concat(_)
\* the batches joined in index order
Concat(bs) == IF bs = <<>> THEN <<>> ELSE Head(bs) \o Concat(Tail(bs))

\* C11: the batches that write cuts, concatenated in index order, are the
\* input list; every batch but the last has exactly batch_size records, the
\* last has between 1 and batch_size; and the effective batch_size is at most
\* the store's limit of 25 whatever the configured value.
C11_BatchesPartitionInput ==
    Cut =>
        LET size == EffectiveBatchSize(config.batch_size) IN
        /\ size <= BatchLimit
        /\ Concat(batches) = transformed_data
        /\ batches # <<>>
        /\ \A i \in 1..(Len(batches) - 1) : Len(batches[i]) = size
        /\ Len(batches[Len(batches)]) \in 1..size

\* C11 witness: a configured batch size above the limit, a first batch of
\* exactly 25 records and a shorter last batch
C11_Witness ==
    /\ Cut
    /\ config.batch_size > BatchLimit
    /\ Len(batches) = 2
    /\ Len(batches[1]) = BatchLimit
    /\ Len(batches[2]) = 1

\* C12: every item in the table has is_published true exactly when its
\* stored journal_ref is non-empty, after any sequence of upserts of
\* transformer outputs for the same paper_id.
C12_PublishedIffJournalRef ==
    \A p \in DOMAIN table :
        Truthy(Get(table[p], "is_published")) <=> Truthy(Get(table[p], "journal_ref"))

\* C13: after every successful upsert of a transformer output, created or
\* merged, the persisted item carries a non-null last_processed taken from
\* the incoming record.
C13_LastProcessedSet ==
    \A p \in DOMAIN table :
        /\ "last_processed" \in DOMAIN table[p]
        /\ ~IsNone(table[p]["last_processed"])
        /\ table[p]["last_processed"] = Get(lastWrite[p].record, "last_processed")

\* the paper_ids of the records of a batch that have one
IdsOf(batch) ==
    {PaperId(batch[i]).s : i \in {j \in 1..Len(batch) : Truthy(PaperId(batch[j]))}}
\* no paper_id occurs in two different batches
NoSharedIds ==
    \A b, c \in DOMAIN batches :
        b # c => IdsOf(batches[b]) \cap IdsOf(batches[c]) = {}

\* one iteration of the loop of _process_batch (lines 214-237) with no store
\* error, on a table nobody else touches; acc holds the table and the counts
RefOrder == CHOOSE setOrder \in SetOrders : TRUE
RefStep(acc, record) ==
    LET paper_id == PaperId(record)
        existing_record == IF paper_id.s \in DOMAIN acc.table
                           THEN acc.table[paper_id.s] ELSE NoRecord
    IN IF ~Truthy(paper_id)
       THEN [acc EXCEPT !.failed_records = @ + 1]
       ELSE IF existing_record # NoRecord
       THEN [acc EXCEPT !.table =
                           SetKey(@, paper_id.s,
                                  ConvertTypes(MergeRecords(existing_record, record,
                                                            KeysOf(record, TransformerKeyOrder),
                                                            RefOrder))),
                        !.updated_records = @ + 1]
       ELSE [acc EXCEPT !.table = SetKey(@, paper_id.s, ConvertTypes(record)),
                        !.new_records = @ + 1]

RECURSIVE RefRun(_, _)
\* all records processed one at a time in input order
RefRun(acc, data) ==
    IF data = <<>> THEN acc ELSE RefRun(RefStep(acc, Head(data)), Tail(data))
RefStart == [table |-> EmptyDict, new_records |-> 0, updated_records |-> 0,
             failed_records |-> 0]

\* a table with the categories of every item taken as a set
NormTable(tbl) ==
    [p \in DOMAIN tbl |->
        [k \in DOMAIN tbl[p] |->
            IF k = "categories" THEN [t |-> "set", e |-> CategoriesOf(tbl[p])]
            ELSE tbl[p][k]]]

\* C21: if no paper_id occurs in two different batches and no store call
\* fails, then however the batches of the parallel dispatcher interleave, the
\* final table equals the one produced by processing the input records one at
\* a time in input order (categories compared as sets), and the returned
\* new and updated counts are those of that sequential run.  (The table is
\* empty when the first call starts; only the first call has several batches.)
C21_ParallelEqualsSequential ==
    (Returned /\ ParallelPath /\ write_calls = 1 /\ injected = 0 /\ NoSharedIds) =>
        LET ref == RefRun(RefStart, transformed_data) IN
            /\ NormTable(table) = NormTable(ref.table)
            /\ result.new_records = ref.new_records
            /\ result.updated_records = ref.updated_records

\* C21 witness: a parallel run without failures has returned, no paper_id
\* is shared between batches, and a record was merged onto an item that an
\* earlier record of the run had created
C21_Witness ==
    /\ Returned /\ ParallelPath /\ write_calls = 1 /\ injected = 0 /\ NoSharedIds
    /\ result.new_records > 0
    /\ result.updated_records > 0
    /\ \E p \in DOMAIN table : Cardinality(CategoriesOf(table[p])) > 1

\* the step is the put of the record at the current position of batch b
PutStep(b) ==
    /\ Running(b)
    /\ futures[b].phase = "put"
    /\ futures'[b].pos = futures[b].pos + 1
    /\ table' # table
\* a record of batch b at an earlier position has the paper_id p and its
\* put_item returned
EarlierPut(b, p) ==
    \E j \in futures[b].puts : PaperId(batches[b][j]) = Str(p)
\* no other batch holds a record of paper_id p
OnlyBatchWith(b, p) ==
    \A c \in DOMAIN batches : c # b => p \notin IdsOf(batches[c])
\* the step puts the merge of item and the current record of batch b and
\* counts the record as updated
MergedOnto(b, item) ==
    LET record == CurrentRecord(b) IN
    /\ \E setOrder \in SetOrders :
          table'[PaperId(record).s] =
              ConvertTypes(MergeRecords(item, record,
                                        KeysOf(record, TransformerKeyOrder), setOrder))
    /\ futures'[b].result =
          [futures[b].result EXCEPT !.updated_records = @ + 1]

\* C22: within one batch records are processed one at a time in input
\* order, so a later record for the same paper_id in the same batch (no other
\* batch holding that paper_id) is merged onto the item written for the
\* earlier record and is counted as updated.
C22_LaterRecordMergedOntoEarlier ==
    [][\A b \in DOMAIN futures :
          LET p == PaperId(CurrentRecord(b)).s IN
          (PutStep(b) /\ EarlierPut(b, p) /\ OnlyBatchWith(b, p)) =>
              MergedOnto(b, table[p])]_vars

\* C22 without the lookups that failed with a ClientError (C3): the later
\* record is merged onto the earlier record's item and counted as updated
C22_MergedUnlessLookupFailed ==
    [][\A b \in DOMAIN futures :
          LET p == PaperId(CurrentRecord(b)).s IN
          (PutStep(b) /\ EarlierPut(b, p) /\ OnlyBatchWith(b, p)
              /\ ~futures[b].lookup_error) =>
              MergedOnto(b, table[p])]_vars

\* the batches handed to _process_batch so far
Submitted == {b \in DOMAIN submissions : submissions[b] > 0}
\* they are the batches 1..k for some k, each handed over once
SubmittedPrefix ==
    /\ \A b \in Submitted : submissions[b] = 1 /\ \A c \in 1..b : c \in Submitted
    /\ \A i \in 1..Len(batch_queue) : batch_queue[i] = Cardinality(Submitted) + i
\* the dispatcher takes a completed future from done (lines 120-122)
Collects == pc = "collect" /\ done' # done
\* the lowest-index batch not yet submitted
LowestUnsubmitted ==
    CHOOSE b \in DOMAIN submissions \ Submitted :
        \A c \in DOMAIN submissions \ Submitted : b <= c

\* C23: in the parallel path, each time the dispatcher collects a completed
\* batch (success or exception) while the queue is non-empty, it submits
\* exactly one further batch, the lowest-index batch not yet submitted,
\* before it collects the next completion; batches are therefore submitted in
\* ascending index order.
C23_CollectSubmitsNextInOrder ==
    [][/\ (Collects /\ batch_queue # <<>>) =>
              /\ submissions' = [submissions EXCEPT ![LowestUnsubmitted] = 1]
              /\ futures'[LowestUnsubmitted].state = "running"
              /\ active_futures' =
                    (active_futures \ (done \ done')) \cup {LowestUnsubmitted}
       /\ (Collects /\ batch_queue = <<>>) => submissions' = submissions
       /\ ParallelPath' => SubmittedPrefix']_vars

\* C23 witness: a batch that raised has been collected while batches were
\* queued, the next batch was submitted for it, and a batch is still queued
C23_Witness ==
    /\ ParallelPath
    /\ \E b \in DOMAIN futures : Raised(b) /\ futures[b].collected
    /\ Cardinality(Submitted) > MaxConcurrent(config.max_workers)
    /\ pc \in {"wait", "collect"}

\* the step finishes the record at the current position of batch b and
\* adds one to exactly one of the three counters of the batch result
CountsOnce(b) ==
    \E counter \in {"new_records", "updated_records", "failed_records"} :
        futures'[b].result = [futures[b].result EXCEPT ![counter] = @ + 1]

\* C24: in a run with no concurrent access to the same paper_id and no
\* store errors, the first write for a paper_id is a plain put of the record
\* counted in new_records and every later write for it is a read-merge-write
\* counted in updated_records (a lookup that returns no item or an empty item
\* is no prior record); each record increments exactly one of new_records,
\* updated_records, failed_records.
C24_CreateThenMerge ==
    [][(injected' = 0 /\ NoSharedIds) =>
          \A b \in DOMAIN futures :
              /\ RecordFinished(b) => CountsOnce(b)
              /\ PutStep(b) =>
                    LET record == CurrentRecord(b)
                        p == PaperId(record).s
                    IN IF Lookup(table, p) = NoRecord
                       THEN /\ table'[p] = ConvertTypes(record)
                            /\ futures'[b].result =
                                  [futures[b].result EXCEPT !.new_records = @ + 1]
                       ELSE MergedOnto(b, table[p])]_vars

\* C24 witness: no failure was injected, a paper was created in the first
\* call of write and the second call has merged its record onto that item
C24_Witness ==
    /\ Returned /\ injected = 0 /\ NoSharedIds
    /\ write_calls = 2
    /\ result.updated_records = 1 /\ result.new_records = 0
    /\ \E p \in DOMAIN table : lastWrite[p].read # NoRecord /\ lastWrite[p].read = lastWrite[p].before

\* an exception reached the handler of write (lines 183-187) in this call:
\* a batch raised in the sequential loop
DispatcherRaised == ~ParallelPath /\ \E b \in DOMAIN futures : Raised(b)

\* C25: whenever write returns without a dispatcher-level exception,
\* new_records + updated_records + failed_records equals the number of input
\* records, for every order of batch completions and every set of batches
\* that raise (for an empty input the returned dict has no failed_records
\* and the other two are 0); the workers never touch the shared counters.
C25_CountsAddUp ==
    [][/\ (Returned' /\ ~DispatcherRaised') =>
              IF transformed_data' = <<>>
              THEN result'.new_records + result'.updated_records = 0
              ELSE result'.new_records + result'.updated_records
                      + result'.failed_records = Len(transformed_data')
       /\ (\E b \in DOMAIN futures : Running(b) /\ futures'[b] # futures[b]) =>
              stats' = stats]_vars

\* C25 witness: a parallel run has returned in which a batch raised and
\* another batch returned its counts
C25_Witness ==
    /\ Returned /\ ParallelPath
    /\ \E b \in DOMAIN futures : Raised(b)
    /\ \E b \in DOMAIN futures : ~Raised(b) /\ futures[b].result.new_records > 0
    /\ result.failed_records > 0 /\ result.new_records > 0

\* C26: the status returned by write reflects only that call: a write
\* whose batches are all dispatched without a dispatcher-level exception
\* returns status "success", also after an earlier write on the same
\* instance returned "error".
C26_StatusOfThisCall ==
    (Returned /\ ~DispatcherRaised) => result.status = "success"

\* C26 restricted to the first call of write on an instance
C26_FirstCallStatus ==
    (Returned /\ ~DispatcherRaised /\ write_calls = 1) => result.status = "success"

(***************************************************************************)
(* SpecConvert: one call of _convert_types_for_dynamodb on drawn records   *)
(***************************************************************************)
ConvertLeaves == {None, Str(""), Str("x"), Num(1), Bool(FALSE), Lst(<<>>), Lst(<<"x">>)}
\* dicts with at most the key k
DictsOver(k, values) == {EmptyDict} \cup {[x \in {k} |-> v] : v \in values}
\* nested dicts: values are leaves / leaves or a dict of leaves
InnerDicts == DictsOver("k", ConvertLeaves)
OuterDicts == DictsOver("k", ConvertLeaves \cup {Dct(r) : r \in InnerDicts})
\* non-empty lists of dicts
ObjLists == {Objs(o) : o \in SeqsUpTo(InnerDicts, MaxObjs) \ {<<>>}}

\* the argument is a record with, each optional, a scalar or list field f, a
\* nested dict d and a list of dicts l
InitConvert ==
    /\ WriteIdle
    /\ InstitutionIdle
    /\ ProcessorIdle
    /\ ConstructIdle
    /\ MergeIdle
    /\ TransformIdle
    /\ cpc = "call"
    /\ \E r1 \in WithOptional(EmptyDict, "f", ConvertLeaves) :
          \E r2 \in WithOptional(r1, "d", {Dct(r) : r \in OuterDicts}) :
             cRecord \in WithOptional(r2, "l", ObjLists)
    /\ cItem = EmptyDict

Convert ==
    /\ cpc = "call"
    /\ cItem' = ConvertTypes(cRecord)
    /\ cpc' = "converted"
    /\ UNCHANGED cRecord
    /\ UNCHANGED <<mergeVars, writeVars, transformVars, constructVars, extraVars>>

NextConvert == Convert
SpecConvert == InitConvert /\ [][NextConvert]_vars

Converted == cpc = "converted"
\* the values the claim calls empty
EmptyValue(v) == IsNone(v) \/ IsEmptyStr(v) \/ v = Lst(<<>>)

RECURSIVE HasEmptyAttr(_)
\* some field of d, at any depth, holds None, "" or []
HasEmptyAttr(d) ==
    \E k \in DOMAIN d :
        \/ EmptyValue(d[k])
        \/ d[k].t = "dict" /\ HasEmptyAttr(d[k].r)
        \/ d[k].t = "objs" /\ \E i \in 1..Len(d[k].o) : HasEmptyAttr(d[k].o[i])

RECURSIVE KeepsOthers(_, _)
\* every field of record that is not empty is a field of item, at any depth
KeepsOthers(record, item) ==
    \A k \in DOMAIN record :
        ~EmptyValue(record[k]) =>
            /\ k \in DOMAIN item
            /\ record[k].t = "dict" =>
                  (item[k].t = "dict" /\ KeepsOthers(record[k].r, item[k].r))
            /\ record[k].t = "objs" =>
                  /\ item[k].t = "objs" /\ Len(item[k].o) = Len(record[k].o)
                  /\ \A i \in 1..Len(record[k].o) :
                        KeepsOthers(record[k].o[i], item[k].o[i])

\* C14: the item returned by _convert_types_for_dynamodb has, at every
\* nesting depth, no field whose value is None, the empty string or the empty
\* list, and has every other field of the record.
C14_NoNullOrEmptyAttribute ==
    Converted => (~HasEmptyAttr(cItem) /\ KeepsOthers(cRecord, cItem))

(***************************************************************************)
(* ArxivMetadataTransformer (src/src/process/transformer.py)               *)
(*                                                                         *)
(* A raw record is a dict; of its fields the model keeps id, _format_type, *)
(* journal_ref, update_date, datestamp and versions.  A version entry is   *)
(* [version, created] as in the writer.                                    *)
(***************************************************************************)
\* pendulum.from_format(created, "ddd, D MMM YYYY HH:mm:ss z"): the day of
\* the timestamps that parse; any other string raises
CreatedDay ==
    [s \in {"Mon, 2 Jan 2023 10:00:00 GMT", "Thu, 5 Jan 2023 10:00:00 GMT"} |->
        IF s = "Mon, 2 Jan 2023 10:00:00 GMT" THEN 2 ELSE 5]
Stamp2 == "Mon, 2 Jan 2023 10:00:00 GMT"
Stamp5 == "Thu, 5 Jan 2023 10:00:00 GMT"
\* a created value in another format
StampBad == "2023-01-02T10:00:00Z"
CreatedParses(s) == s \in DOMAIN CreatedDay

\* pendulum.parse(text) for update_date / datestamp: the day, when it parses
DateDay == [s \in {"2023-01-09"} |-> 9]
DateParses(v) == v.t = "str" /\ v.s \in DOMAIN DateDay

\* date().isoformat() of a day of January 2023
IsoDate(day) ==
    CASE day = 2 -> "2023-01-02"
      [] day = 5 -> "2023-01-05"
      [] day = 9 -> "2023-01-09"

SeqMin(days) == CHOOSE d \in Range(days) : \A e \in Range(days) : d <= e
SeqMax(days) == CHOOSE d \in Range(days) : \A e \in Range(days) : e <= d

\* line 192: "versions" in arxiv_raw_record and isinstance(..., list)
HasVersionsList(arxiv_raw_record) == HasList(arxiv_raw_record, "versions")
\* lines 199-203: every created value of the list parses
AllCreatedParse(entries) == \A i \in 1..Len(entries) : CreatedParses(entries[i].created)
DaysOf(entries) == [i \in 1..Len(entries) |-> CreatedDay[entries[i].created]]

\* _clean_record returned None
CleanFailed == EmptyDict

\* lines 213-225: the first of arXiv update_date, arXiv datestamp, arXivRaw
\* datestamp that is present and parses; None when there is none
UpdateDate(arxiv_record, arxiv_raw_record) ==
    LET candidates == <<Get(arxiv_record, "update_date"), Get(arxiv_record, "datestamp"),
                        Get(arxiv_raw_record, "datestamp")>>
        usable == SelectSeq(candidates, DateParses)
    IN IF usable = <<>> THEN None ELSE Str(IsoDate(DateDay[Head(usable).s]))

\* variant: the count is the number of revisions after the first version
VersionCountRevisions(versions) == ListLen(versions) - 1

\* line 194: item["version_count"] = len(arxiv_raw_record["versions"])
VersionCount(versions) == ListLen(versions)

\* _clean_record (lines 143-231).  With a versions list, line 208 reads
\* version_dates[0]: the list is empty when versions is empty and when a
\* created value did not parse (the handler at 204-206 leaves it empty), the
\* IndexError is caught at line 229 and None is returned.  Without a versions
\* list the item gets no versions, version_count, submitted_date or
\* published_date key.
CleanRecord(arxiv_record, arxiv_raw_record) ==
    LET journal_ref == IF "journal_ref" \in DOMAIN arxiv_record
                       THEN arxiv_record["journal_ref"] ELSE Str("")
        is_published == Truthy(journal_ref)
        core == [k \in {"paper_id", "journal_ref", "is_published", "update_date"} |->
                    CASE k = "paper_id" -> arxiv_record["id"]
                      [] k = "journal_ref" -> journal_ref
                      [] k = "is_published" -> Bool(is_published)
                      [] k = "update_date" -> UpdateDate(arxiv_record, arxiv_raw_record)]
    IN IF ~HasVersionsList(arxiv_raw_record) THEN core
       ELSE LET versions == arxiv_raw_record["versions"]
                entries == Entries(versions)
            IN IF entries = <<>> \/ ~AllCreatedParse(entries) THEN CleanFailed
               ELSE LET days == DaysOf(entries) IN
                    [k \in (DOMAIN core) \cup {"versions", "version_count", "submitted_date",
                                              "published_date"} |->
                        CASE k = "versions" -> versions
                          [] k = "version_count" -> Num(VersionCount(versions))
                          [] k = "submitted_date" -> Str(IsoDate(SeqMin(days)))
                          [] k = "published_date" ->
                                IF is_published THEN Str(IsoDate(SeqMax(days))) ELSE None
                          [] OTHER -> core[k]]

\* _calculate_update_frequency (lines 260-274)
UpdateFrequency(arxiv_raw_record) ==
    LET entries == IF "versions" \in DOMAIN arxiv_raw_record
                   THEN Entries(arxiv_raw_record["versions"]) ELSE <<>>
    IN IF Len(entries) <= 1 THEN None
       ELSE IF ~AllCreatedParse(entries) THEN None
       ELSE Flt(SeqMax(DaysOf(entries)) - SeqMin(DaysOf(entries)), Len(entries) - 1)

\* the day of an ISO date produced by IsoDate
IsoDay(v) == CHOOSE day \in {2, 5, 9} : IsoDate(day) = v.s

\* _calculate_submission_to_publication (lines 291-299)
SubmissionToPublication(submitted_date, published_date) ==
    IF Truthy(submitted_date) /\ Truthy(published_date)
    THEN Flt(IsoDay(published_date) - IsoDay(submitted_date), 1)
    ELSE None

\* lines 68-69: the entry made for an id seen for the first time
NewEntry == [arXiv |-> NoRecord, arXivRaw |-> NoRecord, update_date |-> None]

RECURSIVE GroupLoop(_, _)
\* lines 57-75: the first pass; acc is [ids, by]
GroupLoop(acc, data) ==
    IF data = <<>> THEN acc
    ELSE LET record == Head(data)
             record_id == Get(record, "id")
             format_type == Get(record, "_format_type")
         IN IF ~Truthy(record_id) \/ ~Truthy(format_type)
            THEN GroupLoop(acc, Tail(data))
            ELSE LET id == record_id.s
                     seen == id \in DOMAIN acc.by
                     entry0 == IF seen THEN acc.by[id] ELSE NewEntry
                     entry1 == [entry0 EXCEPT ![format_type.s] = record]
                     entry2 == IF "update_date" \in DOMAIN record
                               THEN [entry1 EXCEPT !.update_date = record["update_date"]]
                               ELSE entry1
                 IN GroupLoop([ids |-> IF seen THEN acc.ids ELSE Append(acc.ids, id),
                               by |-> SetKey(acc.by, id, entry2)],
                              Tail(data))
GroupById(data) == GroupLoop([ids |-> <<>>, by |-> EmptyDict], data)

(***************************************************************************)
(* Inputs of transform                                                     *)
(***************************************************************************)
VersionEntries(stamps) ==
    [i \in 1..Len(stamps) |-> [version |-> LabelNames[i], created |-> stamps[i]]]

\* an arXiv record with a journal reference and a datestamp
ArxivP1 ==
    [k \in {"id", "_format_type", "journal_ref", "datestamp"} |->
        CASE k = "id" -> Str("p1")
          [] k = "_format_type" -> Str("arXiv")
          [] k = "journal_ref" -> Str("J1")
          [] k = "datestamp" -> Str("2023-01-09")]
\* an arXiv record without journal reference, with an update_date
ArxivP2 ==
    [k \in {"id", "_format_type", "update_date"} |->
        CASE k = "id" -> Str("p2")
          [] k = "_format_type" -> Str("arXiv")
          [] k = "update_date" -> Str("2023-01-09")]
RawBase(id) ==
    [k \in {"id", "_format_type", "datestamp"} |->
        CASE k = "id" -> Str(id)
          [] k = "_format_type" -> Str("arXivRaw")
          [] k = "datestamp" -> Str("2023-01-09")]
\* arXivRaw records of p1: without versions, with an empty list, with a
\* created value that does not parse, with one and with two versions
RawP1s ==
    {RawBase("p1")} \cup
    {SetKey(RawBase("p1"), "versions", DLst(VersionEntries(stamps))) :
        stamps \in {<<>>, <<StampBad>>, <<Stamp2>>, <<Stamp5, Stamp2>>}}
RawP2 == SetKey(RawBase("p2"), "versions", DLst(VersionEntries(<<Stamp5>>)))
\* records that the first pass skips: no id, no format marker
RawNoId == [k \in {"_format_type"} |-> Str("arXiv")]
RawNoFormat == [k \in {"id"} |-> Str("p1")]

RawPool == {ArxivP1, ArxivP2, RawP2, RawNoId, RawNoFormat} \cup RawP1s

(***************************************************************************)
(* SpecTransform: transform, called once or again on the same instance     *)
(***************************************************************************)
InitTransform ==
    /\ WriteIdle
    /\ InstitutionIdle
    /\ ProcessorIdle
    /\ ConstructIdle
    /\ MergeIdle
    /\ ConvertIdle
    /\ tpc = "start"
    /\ raw_data \in SeqsUpTo(RawPool, MaxRaw)
    /\ records_by_id = EmptyDict
    /\ ids = <<>>
    /\ t_i = 0
    /\ transformed_records = <<>>
    /\ tstats = [input_records |-> 0, output_records |-> 0, failed_records |-> 0]
    /\ cleaned = EmptyDict
    /\ transform_calls = 1
    /\ pipeline_stats = [total_records |-> 0, successful_records |-> 0, failed_records |-> 0]

\* lines 54-82: the first pass, the statistics, the list of ids
TransformGroup ==
    /\ tpc = "start"
    /\ LET g == GroupById(raw_data) IN
          /\ records_by_id' = g.by
          /\ ids' = g.ids
          /\ tstats' = [tstats EXCEPT !.input_records = Len(g.ids)]
    /\ t_i' = 1
    /\ tpc' = "loop"
    /\ UNCHANGED <<raw_data, transformed_records, cleaned, transform_calls, pipeline_stats>>
    /\ UNCHANGED <<mergeVars, writeVars, convertVars, constructVars, extraVars>>

\* lines 98-99, 115, 119, 122: the id at t_i yields no record
TransformFail ==
    /\ tstats' = [tstats EXCEPT !.failed_records = @ + 1]
    /\ UNCHANGED transformed_records

\* lines 89-119: one iteration of the loop over the ids
TransformRecord ==
    /\ tpc = "loop"
    /\ t_i <= Len(ids)
    /\ LET record_id == ids[t_i]
           arxiv_record == records_by_id[record_id].arXiv
           arxiv_raw_record == records_by_id[record_id].arXivRaw
       IN IF arxiv_record = NoRecord \/ arxiv_raw_record = NoRecord
          THEN \* lines 96-99: one format is missing
               /\ TransformFail
               /\ UNCHANGED cleaned
          ELSE LET item == CleanRecord(arxiv_record, arxiv_raw_record) IN
               /\ cleaned' = SetKey(cleaned, record_id, item)
               /\ IF item = CleanFailed
                  THEN \* lines 113-115
                       TransformFail
                  ELSE IF "submitted_date" \notin DOMAIN item
                  THEN \* line 108: KeyError, caught at line 117
                       TransformFail
                  ELSE /\ transformed_records' =
                            Append(transformed_records,
                                   SetKey(SetKey(item, "update_frequency",
                                                 UpdateFrequency(arxiv_raw_record)),
                                          "submission_to_publication",
                                          SubmissionToPublication(item["submitted_date"],
                                                                  item["published_date"])))
                       /\ UNCHANGED tstats
    /\ t_i' = t_i + 1
    /\ UNCHANGED <<tpc, raw_data, records_by_id, ids, transform_calls, pipeline_stats>>
    /\ UNCHANGED <<mergeVars, writeVars, convertVars, constructVars, extraVars>>

\* lines 126-130: the loop is over
TransformReturn ==
    /\ tpc = "loop"
    /\ t_i > Len(ids)
    /\ tstats' = [tstats EXCEPT !.output_records = Len(transformed_records)]
    /\ tpc' = "returned"
    /\ UNCHANGED <<raw_data, records_by_id, ids, t_i, transformed_records, cleaned,
                   transform_calls, pipeline_stats>>
    /\ UNCHANGED <<mergeVars, writeVars, convertVars, constructVars, extraVars>>

\* pipeline.py lines 76-90 (process_date_range): total_records is the length
\* of the extracted list; with an empty list the pipeline returns there,
\* otherwise the other two are set from the list transform returned
PipelineStats(st, raw, transformed) ==
    IF raw = <<>> THEN [st EXCEPT !.total_records = 0]
    ELSE [total_records |-> Len(raw),
          successful_records |-> Len(transformed),
          failed_records |-> Len(raw) - Len(transformed)]

\* process_date_range takes the list transform returned and counts
PipelineCount ==
    /\ tpc = "returned"
    /\ pipeline_stats' = PipelineStats(pipeline_stats, raw_data, transformed_records)
    /\ tpc' = "counted"
    /\ UNCHANGED <<raw_data, records_by_id, ids, t_i, transformed_records, tstats, cleaned,
                   transform_calls>>
    /\ UNCHANGED <<mergeVars, writeVars, convertVars, constructVars, extraVars>>

\* the raw records of a later call: a complete pair, a lone arXiv record
AgainRaw == {<<ArxivP2, RawP2>>, <<ArxivP1>>}

\* transform is called again on the same instance (the pipeline keeps one
\* transformer, pipeline.py line 38); self.stats is what the call before left
TransformAgain ==
    /\ tpc = "counted"
    /\ transform_calls < MaxTransforms
    /\ transform_calls' = transform_calls + 1
    /\ raw_data' \in AgainRaw
    /\ tpc' = "start"
    /\ records_by_id' = EmptyDict
    /\ ids' = <<>>
    /\ t_i' = 0
    /\ transformed_records' = <<>>
    /\ cleaned' = EmptyDict
    /\ UNCHANGED <<tstats, pipeline_stats>>
    /\ UNCHANGED <<mergeVars, writeVars, convertVars, constructVars, extraVars>>

NextTransform ==
    \/ TransformGroup
    \/ TransformRecord
    \/ TransformReturn
    \/ PipelineCount
    \/ TransformAgain
SpecTransform == InitTransform /\ [][NextTransform]_vars

(***************************************************************************)
(* Properties of transform (checked under SpecTransform)                   *)
(***************************************************************************)
TransformReturned == tpc = "returned"
\* raw_data holds a record of the given format for id
HasFormat(id, format) ==
    \E i \in 1..Len(raw_data) :
        /\ Get(raw_data[i], "id") = Str(id)
        /\ Get(raw_data[i], "_format_type") = Str(format)
\* the ids for which transform received both an arXiv and an arXivRaw record
CompletePairs == {id \in {"p1", "p2"} : HasFormat(id, "arXiv") /\ HasFormat(id, "arXivRaw")}
OutputsFor(id) ==
    {i \in 1..Len(transformed_records) : transformed_records[i]["paper_id"] = Str(id)}

\* C15: for every paper id for which transform received both an arXiv and
\* an arXivRaw record, transform returns exactly one record with that
\* paper_id, also when the arXivRaw record has no versions list or version
\* timestamps that do not parse.
C15_OneOutputPerPair ==
    TransformReturned =>
        \A id \in CompletePairs : Cardinality(OutputsFor(id)) = 1

\* the date _clean_record is said to fall back to: update_date / datestamp of
\* either record, else the current date
Today == "2023-02-01"
FallbackDates(id) ==
    LET fields == {Get(records_by_id[id].arXiv, "update_date"),
                   Get(records_by_id[id].arXiv, "datestamp"),
                   Get(records_by_id[id].arXivRaw, "update_date"),
                   Get(records_by_id[id].arXivRaw, "datestamp")}
        usable == {v \in fields : DateParses(v)}
    IN IF usable = {} THEN {Str(Today)} ELSE usable
\* some created timestamp of the pair can be used
UsableVersions(id) ==
    /\ HasVersionsList(records_by_id[id].arXivRaw)
    /\ \E i \in 1..ListLen(records_by_id[id].arXivRaw["versions"]) :
          CreatedParses(Entries(records_by_id[id].arXivRaw["versions"])[i].created)

\* C16: every complete pair yields from _clean_record a record with a
\* non-null submitted_date; when no version timestamp can be used it is the
\* update_date/datestamp of either source record, else the current date.
C16_SubmittedDateFallback ==
    \A id \in DOMAIN cleaned :
        /\ cleaned[id] # CleanFailed
        /\ "submitted_date" \in DOMAIN cleaned[id]
        /\ ~IsNone(cleaned[id]["submitted_date"])
        /\ ~UsableVersions(id) => cleaned[id]["submitted_date"] \in FallbackDates(id)

\* C17: every record returned by transform has version_count equal to the
\* length of its versions list, and update_frequency None whenever its
\* version_count is 0 or 1.
C17_VersionCountAndFrequency ==
    \A i \in 1..Len(transformed_records) :
        LET r == transformed_records[i] IN
        /\ HasList(r, "versions")
        /\ "version_count" \in DOMAIN r /\ IsNumber(r["version_count"])
        /\ r["version_count"].n = ListLen(r["versions"])
        /\ "update_frequency" \in DOMAIN r
        /\ r["version_count"].n \in {0, 1} => IsNone(r["update_frequency"])

\* C17 witness: transform returned a record with a single version and no
\* update frequency
C17_Witness ==
    /\ TransformReturned
    /\ \E i \in 1..Len(transformed_records) :
          /\ ListLen(transformed_records[i]["versions"]) = 1
          /\ transformed_records[i]["version_count"] = Num(1)
          /\ IsNone(transformed_records[i]["update_frequency"])

\* C18: transform returns whatever is incomplete in its input: an id with
\* only one of the two formats and a raw record without id or format marker
\* yield no output record, and every complete pair of the same call is
\* transformed and returned.
C18_IncompleteSkippedPairsReturned ==
    TransformReturned =>
        /\ \A i \in 1..Len(transformed_records) :
              \E id \in CompletePairs : transformed_records[i]["paper_id"] = Str(id)
        /\ Len(transformed_records) = Cardinality(CompletePairs)

\* C27: after any sequence of transform calls on one instance the
\* statistics satisfy input_records = output_records + failed_records, all
\* three describing the most recent call.
C27_StatsBalance ==
    TransformReturned =>
        tstats.input_records = tstats.output_records + tstats.failed_records

\* C27 restricted to the first call on an instance
C27_FirstCallBalance ==
    (TransformReturned /\ transform_calls = 1) =>
        tstats.input_records = tstats.output_records + tstats.failed_records

PipelineCounted == tpc = "counted"
\* the papers of the extracted records
PapersOf(raw) ==
    {Get(raw[i], "id").s : i \in {j \in 1..Len(raw) : Truthy(Get(raw[j], "id"))}}
\* every extracted record belongs to a complete pair
AllPaired ==
    \A i \in 1..Len(raw_data) :
        /\ Truthy(Get(raw_data[i], "id")) /\ Truthy(Get(raw_data[i], "_format_type"))
        /\ Get(raw_data[i], "id").s \in CompletePairs

\* every extracted record names its paper
AllIdentified == \A i \in 1..Len(raw_data) : Truthy(Get(raw_data[i], "id"))

\* C28: the failed_records reported by process_date_range is the number of
\* papers that did not yield a transformed record (every extracted record
\* naming its paper); it is 0 when every extracted record belongs to a
\* complete pair that transforms successfully.
C28_FailedCountsPapers ==
    (PipelineCounted /\ raw_data # <<>> /\ AllIdentified) =>
        /\ pipeline_stats.failed_records =
              Cardinality({id \in PapersOf(raw_data) : OutputsFor(id) = {}})
        /\ (AllPaired /\ \A id \in CompletePairs : OutputsFor(id) # {}) =>
              pipeline_stats.failed_records = 0

(***************************************************************************)
(* PersistenceWriter.__init__ and _ensure_table_exists (writer.py 28-60,   *)
(* 387-458), against a store whose table is absent, being created or       *)
(* active.  SpecConstruct constructs a writer, possibly again, and lets    *)
(* the pipeline call write on a writer that was constructed.               *)
(***************************************************************************)
\* config.get(key, default)
ConfigGet(cfg, key, default) == IF key \in DOMAIN cfg THEN cfg[key] ELSE default

\* lines 38-42: the attributes __init__ sets before it looks at the table
WriterAttrs(cfg) ==
    [batch_size |-> EffectiveBatchSize(ConfigGet(cfg, "batch_size", BatchLimit)),
     max_workers |-> ConfigGet(cfg, "max_workers", MaxConcurrentCeiling),
     parallel_enabled |-> ConfigGet(cfg, "parallel_enabled", TRUE)]

\* configuration dicts, each key present or left to its default
ConstructConfigs ==
    UNION {UNION {WithOptional(c2, "parallel_enabled", {FALSE})
                    : c2 \in WithOptional(c1, "max_workers", {2, MaxConcurrentCeiling + 3})}
             : c1 \in WithOptional(EmptyDict, "batch_size",
                                   {10, BatchLimit, BatchLimit + 15})}

\* what describe_table answers
DescribeOk == "ok"
NotFound == "ResourceNotFoundException"
\* a ClientError with another code, and an error that is not a ClientError
OtherErrors == {"AccessDeniedException", "EndpointConnectionError"}

\* variant: create_table is issued whatever the existence check answered
AfterDescribeAlwaysCreate(answer) ==
    IF answer \in OtherErrors THEN "failed" ELSE "create"

\* variant: every failed existence check is taken for a missing table
AfterDescribeAnyErrorCreates(answer) ==
    IF answer = DescribeOk THEN "constructed" ELSE "create"

\* lines 391-458: where _ensure_table_exists goes after describe_table
AfterDescribe(answer) ==
    CASE answer = DescribeOk -> "constructed"
      [] answer = NotFound -> "create"
      [] OTHER -> "failed"

InitConstruct ==
    /\ WriteIdle
    /\ InstitutionIdle
    /\ ProcessorIdle
    /\ MergeIdle
    /\ ConvertIdle
    /\ TransformIdle
    /\ bpc = "new"
    /\ boot_config \in ConstructConfigs
    /\ attrs = EmptyDict
    /\ remote_table \in {"absent", "active"}
    /\ calls = NoCalls
    /\ previous = <<>>
    /\ bfaults = MaxFaults

ConstructOthers == <<mergeVars, writeVars, convertVars, transformVars, extraVars>>

\* lines 35-57: __init__ up to the call of _ensure_table_exists
ConstructStart ==
    /\ bpc = "new"
    /\ attrs' = WriterAttrs(boot_config)
    /\ bpc' = "describe"
    /\ UNCHANGED <<boot_config, remote_table, calls, previous, bfaults>>
    /\ UNCHANGED ConstructOthers

\* line 393 and the dispatch on its outcome (394, 396-399, 455-458)
DescribeTable ==
    /\ bpc = "describe"
    /\ \E answer \in {DescribeOk, NotFound} \cup OtherErrors :
          /\ answer = DescribeOk => remote_table # "absent"
          /\ answer = NotFound => remote_table = "absent"
          /\ answer \in OtherErrors => bfaults > 0
          /\ bfaults' = IF answer \in OtherErrors THEN bfaults - 1 ELSE bfaults
          /\ bpc' = AfterDescribe(answer)
          /\ calls' = [calls EXCEPT !.describe = @ + 1,
                                    !.answer = answer,
                                    !.raised = IF AfterDescribe(answer) = "failed"
                                               THEN answer ELSE @]
    /\ UNCHANGED <<boot_config, attrs, remote_table, previous>>
    /\ UNCHANGED ConstructOthers

\* lines 401-449: create_table is accepted; the table is being created
CreateTable ==
    /\ bpc = "create"
    /\ remote_table' = IF remote_table = "absent" THEN "creating" ELSE remote_table
    /\ calls' = [calls EXCEPT !.create = @ + 1]
    /\ bpc' = "wait"
    /\ UNCHANGED <<boot_config, attrs, previous, bfaults>>
    /\ UNCHANGED ConstructOthers

\* lines 401-449: create_table raises; nothing catches it
CreateRaises ==
    /\ bpc = "create"
    /\ bfaults > 0
    /\ bfaults' = bfaults - 1
    /\ calls' = [calls EXCEPT !.create = @ + 1, !.raised = "create_table"]
    /\ bpc' = "failed"
    /\ UNCHANGED <<boot_config, attrs, remote_table, previous>>
    /\ UNCHANGED ConstructOthers

\* the store finishes creating the table
TableActive ==
    /\ remote_table = "creating"
    /\ remote_table' = "active"
    /\ UNCHANGED <<bpc, boot_config, attrs, calls, previous, bfaults>>
    /\ UNCHANGED ConstructOthers

\* line 452: the table_exists waiter returns once the table is active
WaitTableExists ==
    /\ bpc = "wait"
    /\ remote_table = "active"
    /\ calls' = [calls EXCEPT !.wait = @ + 1]
    /\ bpc' = "constructed"
    /\ UNCHANGED <<boot_config, attrs, remote_table, previous, bfaults>>
    /\ UNCHANGED ConstructOthers

\* line 452: the waiter gives up (WaiterError); nothing catches it
WaitRaises ==
    /\ bpc = "wait"
    /\ bfaults > 0
    /\ bfaults' = bfaults - 1
    /\ calls' = [calls EXCEPT !.raised = "waiter"]
    /\ bpc' = "failed"
    /\ UNCHANGED <<boot_config, attrs, remote_table, previous>>
    /\ UNCHANGED ConstructOthers

\* pipeline.py line 95: write is called on the writer that was constructed
WriteCalled ==
    /\ bpc = "constructed"
    /\ calls.write = 0
    /\ calls' = [calls EXCEPT !.write = 1]
    /\ UNCHANGED <<bpc, boot_config, attrs, remote_table, previous, bfaults>>
    /\ UNCHANGED ConstructOthers

\* a writer is constructed again with the same configuration
ConstructAgain ==
    /\ bpc \in {"constructed", "failed"}
    /\ Len(previous) + 1 < MaxRuns
    /\ previous' = Append(previous, [outcome |-> bpc, remote_table |-> remote_table,
                                     calls |-> calls])
    /\ calls' = NoCalls
    /\ bpc' = "new"
    /\ UNCHANGED <<boot_config, attrs, remote_table, bfaults>>
    /\ UNCHANGED ConstructOthers

NextConstruct ==
    \/ ConstructStart
    \/ DescribeTable
    \/ CreateTable
    \/ CreateRaises
    \/ TableActive
    \/ WaitTableExists
    \/ WaitRaises
    \/ WriteCalled
    \/ ConstructAgain

SpecConstruct == InitConstruct /\ [][NextConstruct]_vars

(***************************************************************************)
(* Properties of _ensure_table_exists (checked under SpecConstruct)        *)
(***************************************************************************)
Constructed == bpc = "constructed"
TableExists == remote_table # "absent"
\* the construction before this one returned normally
PreviousReturned == previous # <<>> /\ previous[Len(previous)].outcome = "constructed"

\* C19: when the existence check succeeds no create_table is issued; when it
\* reports that the table does not exist exactly one create_table is issued
\* and the call returns only after the table-exists wait has completed; when
\* it returns normally the table exists; running it again after a normal
\* return finds the table, issues no create_table and leaves the table in
\* place.
C19_EnsureTableIdempotent ==
    /\ calls.answer = DescribeOk => calls.create = 0
    /\ (Constructed /\ calls.answer = NotFound) =>
          (calls.create = 1 /\ calls.wait = 1 /\ remote_table = "active")
    /\ calls.create <= 1 /\ calls.describe <= 1
    /\ Constructed => TableExists
    /\ PreviousReturned =>
          /\ calls.answer # NotFound
          /\ calls.create = 0
          /\ TableExists

\* C19 witness: the first construction created the table, the second one
\* found it and returned
C19_Witness ==
    /\ Constructed
    /\ PreviousReturned
    /\ previous[Len(previous)].calls.create = 1
    /\ calls.describe = 1 /\ calls.create = 0

\* C20: when the existence check fails with an error other than 'resource
\* not found', no create_table is issued, the check is not repeated, the
\* error reaches the caller of the constructor, and write is never called on
\* that writer.
C20_OtherErrorPropagates ==
    /\ calls.answer \in OtherErrors =>
          /\ bpc = "failed"
          /\ calls.raised = calls.answer
          /\ calls.create = 0
          /\ calls.describe = 1
          /\ calls.wait = 0
    /\ calls.write > 0 => Constructed

\* C20 witness: the table is absent, the check failed with another error,
\* and the constructor has raised without creating it
C20_Witness ==
    /\ bpc = "failed"
    /\ calls.answer \in OtherErrors
    /\ remote_table = "absent"
    /\ calls.create = 0

(***************************************************************************)
(* SpecInstitution: the institution extraction of _clean_record            *)
(* (transformer.py lines 179-189) on drawn submitter values.  A string is  *)
(* a sequence of tokens; the separators '<', '>', '@' and '.' are tokens   *)
(* of their own and no other token contains one.                           *)
(***************************************************************************)
Text(c) == [t |-> "text", c |-> c]

RECURSIVE Split(_, _)
\* str.split(sep): the pieces between the occurrences of sep, one more than
\* there are occurrences
Split(s, sep) ==
    IF \A i \in 1..Len(s) : s[i] # sep THEN <<s>>
    ELSE LET i == CHOOSE i \in 1..Len(s) : s[i] = sep /\ \A j \in 1..(i - 1) : s[j] # sep
         IN <<SubSeq(s, 1, i - 1)>> \o Split(SubSeq(s, i + 1, Len(s)), sep)

\* item["institution"] was set to value
InstitutionSet(value) == [raised |-> "none", value |-> value]
\* an exception left the extraction (and is caught at line 229, where
\* _clean_record returns None)
InstitutionRaised(exception) == [raised |-> exception, value |-> <<>>]

\* lines 180-189.  "@" in None raises TypeError, which the handler at line
\* 186 does not catch; a missing piece ([1] of a one-piece split) raises
\* IndexError, which it does.
ExtractInstitution(record) ==
    IF "submitter" \notin DOMAIN record THEN InstitutionSet(<<>>)
    ELSE IF record["submitter"].t = "none" THEN InstitutionRaised("TypeError")
    ELSE LET submitter == record["submitter"].c IN
         IF "@" \notin Range(submitter) THEN InstitutionSet(<<>>)
         ELSE LET angle == Split(submitter, "<") IN
              IF Len(angle) < 2 THEN InstitutionSet(<<>>)
              ELSE LET email == Split(angle[2], ">")[1]
                       at == Split(email, "@")
                   IN IF Len(at) < 2 THEN InstitutionSet(<<>>)
                      ELSE InstitutionSet(Split(at[2], ".")[1])

Tokens == {"a", "mit", "<", ">", "@", "."}
\* "Jo <a@mit.edu>", "a@mit.edu", "Jo <a@mit.edu", "Jo <a>"
NamedSubmitters ==
    {<<"Jo ", "<", "a", "@", "mit", ".", "edu", ">">>,
     <<"a", "@", "mit", ".", "edu">>,
     <<"Jo ", "<", "a", "@", "mit", ".", "edu">>,
     <<"Jo ", "<", "a", ">">>}
SubmitterValues ==
    {[t |-> "none"]} \cup {Text(c) : c \in SeqsUpTo(Tokens, MaxTokens) \cup NamedSubmitters}

InitInstitution ==
    /\ WriteIdle
    /\ MergeIdle
    /\ ConvertIdle
    /\ TransformIdle
    /\ ConstructIdle
    /\ ProcessorIdle
    /\ ipc = "call"
    /\ iRecord \in {[k \in {} |-> <<>>]} \cup
                   {[k \in {"submitter"} |-> v] : v \in SubmitterValues}
    /\ institution = InstitutionSet(<<>>)

Extract ==
    /\ ipc = "call"
    /\ institution' = ExtractInstitution(iRecord)
    /\ ipc' = "done"
    /\ UNCHANGED iRecord
    /\ UNCHANGED <<mergeVars, writeVars, convertVars, transformVars, constructVars,
                   processorVars>>

NextInstitution == Extract
SpecInstitution == InitInstitution /\ [][NextInstitution]_vars

Extracted == ipc = "done"
\* the submitter is a string containing '@'
SubmitterWithAt ==
    /\ "submitter" \in DOMAIN iRecord
    /\ iRecord["submitter"].t = "text"
    /\ "@" \in Range(iRecord["submitter"].c)
\* the address: the text between '<' and '>' when those are present, the
\* whole submitter string otherwise
ClaimedAddress(submitter) ==
    IF "<" \in Range(submitter) /\ ">" \in Range(submitter)
    THEN Split(Split(submitter, "<")[2], ">")[1]
    ELSE submitter
\* the first dot-separated label of the domain after '@'; empty on failure
ClaimedInstitution(submitter) ==
    LET at == Split(ClaimedAddress(submitter), "@") IN
    IF Len(at) < 2 THEN <<>> ELSE Split(at[2], ".")[1]

\* the submitter holds both a '<' and a '>', or neither
BracketsPaired ==
    "<" \in Range(iRecord["submitter"].c) <=> ">" \in Range(iRecord["submitter"].c)

\* C29: for a submitter string containing '@', the institution is the first
\* dot-separated label of the domain after '@', the address being the text
\* between '<' and '>' when those are present and the whole submitter string
\* otherwise (strings with only one of the two brackets left aside); a
\* failure gives the empty string and nothing is raised.
C29_InstitutionFromAddress ==
    (Extracted /\ SubmitterWithAt /\ BracketsPaired) =>
        /\ institution.raised = "none"
        /\ institution.value = ClaimedInstitution(iRecord["submitter"].c)

\* C29 for the submitter strings that hold a '<': the claimed label
C29_BracketedAddress ==
    (Extracted /\ SubmitterWithAt /\ "<" \in Range(iRecord["submitter"].c)
        /\ ">" \in Range(iRecord["submitter"].c)) =>
        institution = InstitutionSet(ClaimedInstitution(iRecord["submitter"].c))

\* C29, last part: for a submitter string nothing is raised
C29_StringNeverRaises ==
    (Extracted /\ "submitter" \in DOMAIN iRecord /\ iRecord["submitter"].t = "text") =>
        institution.raised = "none"

(***************************************************************************)
(* SpecProcessor: ArxivProcessor.process on one input file of format arXiv *)
(* (src/src/process/processor.py): _process_file, the flush of the         *)
(* remaining buffers, _write_parquet.  A buffered record is the number of  *)
(* its line.                                                               *)
(***************************************************************************)
\* a line of the file: empty, not JSON, or a record with the partition key
\* of its submitted_date and whether title, abstract and categories are all
\* missing
BlankLine == [kind |-> "blank", key |-> "", insufficient |-> FALSE]
BadLine == [kind |-> "bad", key |-> "", insufficient |-> FALSE]
RecordLine(key, insufficient) == [kind |-> "record", key |-> key, insufficient |-> insufficient]
LinePool ==
    {BlankLine, BadLine, RecordLine("day=02", FALSE), RecordLine("day=05", FALSE),
     RecordLine("day=02", TRUE)}

InitProcessor ==
    /\ WriteIdle
    /\ MergeIdle
    /\ ConvertIdle
    /\ TransformIdle
    /\ ConstructIdle
    /\ InstitutionIdle
    /\ xpc = "open"
    /\ local_mode \in BOOLEAN
    /\ chunk_size \in {1, 2}
    /\ file_lines \in SeqsUpTo(LinePool, MaxLines)
    /\ line_i = 0
    /\ buffers = [k \in {} |-> <<>>]
    /\ counters = [k \in {} |-> 0]
    /\ processor_stats = [total_records |-> 0, successful_records |-> 0,
                          failed_records |-> 0]
    /\ processed_count = 0
    /\ written = {}

\* lines 499-506: in local mode the file is read with readlines(), then line
\* 506 (outside the else) reads file_object, which is unbound: the
\* UnboundLocalError is caught at line 565 and _process_file returns 0.  In
\* object-store mode raw_lines are the lines of the body.
OpenFile ==
    /\ xpc = "open"
    /\ IF local_mode
       THEN xpc' = "flush" /\ UNCHANGED line_i
       ELSE xpc' = "lines" /\ line_i' = 1
    /\ UNCHANGED <<local_mode, chunk_size, file_lines, buffers, counters, processor_stats,
                   processed_count, written>>
    /\ UNCHANGED <<mergeVars, writeVars, convertVars, transformVars, constructVars,
                   institutionVars>>

\* iter_lines() of the object body yields bytes (readlines() of a text file
\* would yield str)
LineIsBytes == ~local_mode

\* _write_parquet (lines 584-623): a key unknown to counters gets the counter
\* 1 and nothing else is done; otherwise the counter goes up by one and the
\* batch is written to part-<counter>
WriteParquet(key, batch, cnt, files) ==
    IF key \notin DOMAIN cnt
    THEN [counters |-> SetKey(cnt, key, 1), written |-> files]
    ELSE [counters |-> [cnt EXCEPT ![key] = @ + 1],
          written |-> files \cup {[key |-> key, part |-> cnt[key] + 1, records |-> batch]}]

FailedOne(st) == [st EXCEPT !.failed_records = @ + 1]

\* lines 509-560: one iteration of the loop over raw_lines
ProcessLine ==
    /\ xpc = "lines"
    /\ line_i <= Len(file_lines)
    /\ LET line == file_lines[line_i] IN
       IF line.kind = "blank"
       THEN \* lines 510-511
            UNCHANGED <<buffers, counters, processor_stats, processed_count, written>>
       ELSE IF line.kind = "bad"
       THEN \* json.loads raises, lines 557-560
            /\ processor_stats' = FailedOne(processor_stats)
            /\ UNCHANGED <<buffers, counters, processed_count, written>>
       ELSE IF LineIsBytes
       THEN \* lines 515-516: the record is parsed and nothing else is done
            UNCHANGED <<buffers, counters, processor_stats, processed_count, written>>
       ELSE IF line.insufficient
       THEN \* lines 518-530, under the else of line 517
            /\ processor_stats' = FailedOne(processor_stats)
            /\ UNCHANGED <<buffers, counters, processed_count, written>>
       ELSE \* lines 532-555: the append and the counts are under the if of
            \* line 542
            LET key == line.key
                isNew == key \notin DOMAIN buffers
                buffer == IF isNew THEN <<line_i>> ELSE buffers[key]
                cnt == IF isNew THEN SetKey(counters, key, 0) ELSE counters
                out == WriteParquet(key, buffer, cnt, written)
            IN /\ processor_stats' =
                     IF isNew
                     THEN [processor_stats EXCEPT !.total_records = @ + 1,
                                                  !.successful_records = @ + 1]
                     ELSE processor_stats
               /\ processed_count' = IF isNew THEN processed_count + 1 ELSE processed_count
               /\ IF Len(buffer) >= chunk_size
                  THEN /\ buffers' = SetKey(buffers, key, <<>>)
                       /\ counters' = out.counters
                       /\ written' = out.written
                  ELSE /\ buffers' = SetKey(buffers, key, buffer)
                       /\ counters' = cnt
                       /\ UNCHANGED written
    /\ line_i' = line_i + 1
    /\ UNCHANGED <<xpc, local_mode, chunk_size, file_lines>>
    /\ UNCHANGED <<mergeVars, writeVars, convertVars, transformVars, constructVars,
                   institutionVars>>

\* lines 562-563: the loop is over, _process_file returns
FileDone ==
    /\ xpc = "lines"
    /\ line_i > Len(file_lines)
    /\ xpc' = "flush"
    /\ UNCHANGED <<local_mode, chunk_size, file_lines, line_i, buffers, counters,
                   processor_stats, processed_count, written>>
    /\ UNCHANGED <<mergeVars, writeVars, convertVars, transformVars, constructVars,
                   institutionVars>>

RECURSIVE FlushAll(_, _, _)
\* process lines 446-450: every non-empty buffer is handed to _write_parquet
FlushAll(keys, cnt, files) ==
    IF keys = {} THEN [counters |-> cnt, written |-> files]
    ELSE LET key == CHOOSE k \in keys : TRUE
             out == IF buffers[key] # <<>>
                    THEN WriteParquet(key, buffers[key], cnt, files)
                    ELSE [counters |-> cnt, written |-> files]
         IN FlushAll(keys \ {key}, out.counters, out.written)

FlushRemaining ==
    /\ xpc = "flush"
    /\ counters' = FlushAll(DOMAIN buffers, counters, written).counters
    /\ written' = FlushAll(DOMAIN buffers, counters, written).written
    /\ xpc' = "returned"
    /\ UNCHANGED <<local_mode, chunk_size, file_lines, line_i, buffers, processor_stats,
                   processed_count>>
    /\ UNCHANGED <<mergeVars, writeVars, convertVars, transformVars, constructVars,
                   institutionVars>>

NextProcessor == OpenFile \/ ProcessLine \/ FileDone \/ FlushRemaining
SpecProcessor == InitProcessor /\ [][NextProcessor]_vars

ProcessReturned == xpc = "returned"
\* the lines that hold a parsed record passing the insufficient-data check
GoodLines ==
    {i \in 1..Len(file_lines) :
        file_lines[i].kind = "record" /\ ~file_lines[i].insufficient}
FilesWith(i) == {f \in written : i \in Range(f.records)}

\* C30: _process_file appends every parsed record that passes the
\* insufficient-data check to the buffer of its partition key and counts it
\* once in total_records and successful_records, in local mode and in
\* object-store mode alike; a buffer is written and emptied as soon as it
\* holds chunk_size records; after process() every successful record is in
\* exactly one written file.
C30_EveryRecordWrittenOnce ==
    /\ \A key \in DOMAIN buffers : Len(buffers[key]) < chunk_size
    /\ ProcessReturned =>
          /\ processor_stats.total_records = Cardinality(GoodLines)
          /\ processor_stats.successful_records = Cardinality(GoodLines)
          /\ \A i \in GoodLines :
                /\ Cardinality(FilesWith(i)) = 1
                /\ \A f \in FilesWith(i) : f.key = file_lines[i].key

\* what process() does hold on to: no record is counted, buffered or
\* written, in either mode
C30_NothingProcessed ==
    /\ buffers = [k \in {} |-> <<>>]
    /\ written = {}
    /\ processor_stats.total_records = 0
    /\ processor_stats.successful_records = 0

====
